---- MODULE Spec2Model ----
(***************************************************************************)
(* Model of the remote agent's turn loop, ITServiceAgentExecutor.execute   *)
(* (src/agent/main.py): the ReAct loop that streams a completion, folds    *)
(* its deltas into an assistant message, dispatches the tool calls and     *)
(* feeds the results back, with the retry clauses around one generation;   *)
(* and of the host that streams the agent's notices to the UI as           *)
(* envelopes (src/backend/main.py chat_stream, src/backend/core/           *)
(* a2a_host.py, src/backend/core/a2ui_generator.py).                       *)
(*                                                                         *)
(* Python values are modelled as follows.  Text is a TLA+ string, None is  *)
(* the string None below (no text of the model's universe equals it), a    *)
(* dict is a function, a list a sequence.  uuid.uuid4() is a counter:      *)
(* every call yields an identifier not seen before.                        *)
(***************************************************************************)
EXTENDS Integers, Sequences, FiniteSets, TLC

VARIABLES
    pc,                     \* position of execute (see the actions)
    user_message,           \* context.get_user_input()
    messages,               \* the conversation handed to acompletion
    attempt,                \* loop variable of the retry loop
    current_content,        \* accumulated text of the current attempt
    tool_calls_accumulator, \* index -> slot, of the current attempt
    turn_id,                \* message id of the attempt's text
    tool_calls,             \* tool calls of the completed message
    tc_pos,                 \* position of the dispatch loop in tool_calls
    function_response,      \* result of the tool call being dispatched
    event_queue,            \* notices enqueued so far, in order
    uuid_n,                 \* number of uuid4() calls made so far
    received,               \* deltas the current stream has delivered
    gen_log,                \* one record per acompletion call
    invocations,            \* tool bodies executed so far, in order
    last_error,             \* the exception the last failed attempt raised
    sleeps,                 \* the durations asyncio.sleep was awaited with
    host_pc,                \* position of the host's generate_stream
    host_pos,               \* notices of the agent the host has received
    accumulated_text,       \* text of the chunks converted so far
    last_message_id,        \* fragment id taken from the last envelope
    sse,                    \* events sent to the UI so far, in order
    host_uuid_n,            \* number of uuid4() calls made by the host
    conversions,            \* one record per convert_to_a2ui call
    connections,            \* HostAgent.connections: agent_url -> connection
    requests,               \* the requests of the host's endpoints in progress
    calls_n,                \* number of get_or_create_connection calls begun
    conn_n,                 \* number of RemoteAgentConnections constructed
    card_fetches,           \* the resolver.get_agent_card() calls, in order
    returns,                \* the returns of get_or_create_connection, in order
    accumulated_envelopes,  \* the envelopes generate_stream keeps to persist
    db_messages,            \* the Message rows of the session, in commit order
    chat_session            \* whether the Session row of the request exists

\* the state of the agent's execute
agent_vars == <<pc, user_message, messages, attempt, current_content,
                tool_calls_accumulator, turn_id, tool_calls, tc_pos,
                function_response, event_queue, uuid_n, received, gen_log,
                invocations, last_error, sleeps>>

\* the state of the host's chat_stream
host_vars == <<host_pc, host_pos, accumulated_text, last_message_id, sse,
               host_uuid_n, conversions>>

\* the state of the HostAgent shared by the requests of the backend
cache_vars == <<connections, requests, calls_n, conn_n, card_fetches, returns>>

\* what chat_stream keeps for, and writes to, the database
store_vars == <<accumulated_envelopes, db_messages, chat_session>>

vars == <<agent_vars, host_vars, cache_vars, store_vars>>

(***************************************************************************)
(* Bounds of the model.                                                    *)
(***************************************************************************)
\* acompletion calls of one run of execute
MaxGenCalls == 2
\* deltas one stream delivers
MaxChunks == 2
\* deltas one stream delivers when the fold is checked alone
MaxFoldChunks == 3
\* chunks per stream when tool dispatch is checked
MaxDispatchChunks == 1
\* chunks per stream of the agent when the host is checked
MaxHostChunks == 1
\* error chunks the remote stream delivers to the host
MaxHostErrors == 1

(***************************************************************************)
(* Python values.                                                          *)
(***************************************************************************)
None == "<None>"

\* bool(x) of a str-or-None value
Truthy(x) == x # None /\ x # ""

\* x or ""
OrEmpty(x) == IF Truthy(x) THEN x ELSE ""

\* str(uuid.uuid4()): the n-th identifier drawn
Uuid(n) == "uuid-" \o ToString(n)

EmptyDict == [i \in {} |-> None]

(***************************************************************************)
(* The stream fold: what one chunk does to the accumulators.               *)
(* A delta is [content, tool_calls]: content a text or None, tool_calls a  *)
(* sequence (empty for None or []) of fragments [index, id, name,          *)
(* arguments], where name and arguments are tool_call.function's.          *)
(***************************************************************************)
\* mutant of AddContent: the chunks of text are joined by a space
AddContent_Spaced(content, d) ==
    IF Truthy(d.content)
    THEN (IF content = "" THEN d.content ELSE content \o " " \o d.content)
    ELSE content

\* current_content after "if delta.content: current_content += ..."
AddContent(content, d) ==
    IF Truthy(d.content) THEN content \o d.content ELSE content

\* the slot built for an index not in the accumulator yet
NewSlot(tc) ==
    [id |-> tc.id,
     type |-> "function",
     function |-> [name |-> OrEmpty(tc.name),
                   arguments |-> OrEmpty(tc.arguments)]]

\* mutant of AppendParts: a later fragment replaces the name and the
\* argument text accumulated so far
AppendParts_Replace(slot, tc) ==
    [slot EXCEPT
        !.function.name = IF Truthy(tc.name) THEN tc.name ELSE @,
        !.function.arguments =
            IF Truthy(tc.arguments) THEN tc.arguments ELSE @]

\* the slot of an index already in the accumulator, after "Append parts"
AppendParts(slot, tc) ==
    [slot EXCEPT
        !.function.name = IF Truthy(tc.name) THEN @ \o tc.name ELSE @,
        !.function.arguments =
            IF Truthy(tc.arguments) THEN @ \o tc.arguments ELSE @]

\* mutant of FillId: every fragment that carries an id sets the slot's id
FillId_LastWins(slot, tc) ==
    IF Truthy(tc.id) THEN [slot EXCEPT !.id = tc.id] ELSE slot

\* "if tool_call.id and not accumulator[index]['id']"
FillId(slot, tc) ==
    IF Truthy(tc.id) /\ ~Truthy(slot.id) THEN [slot EXCEPT !.id = tc.id]
    ELSE slot

\* one tool_call of delta.tool_calls folded into the accumulator
FoldToolCall(acc, tc) ==
    LET slot == IF tc.index \notin DOMAIN acc THEN NewSlot(tc)
                ELSE AppendParts(acc[tc.index], tc)
    IN  [i \in DOMAIN acc \cup {tc.index} |->
            IF i = tc.index THEN FillId(slot, tc) ELSE acc[i]]

RECURSIVE FoldToolCalls(_, _)
\* "for tool_call in delta.tool_calls"
FoldToolCalls(acc, tcs) ==
    IF tcs = <<>> THEN acc
    ELSE FoldToolCalls(FoldToolCall(acc, Head(tcs)), Tail(tcs))

(***************************************************************************)
(* Reconstruction of the completed message once the stream has ended.      *)
(***************************************************************************)
Min(S) == CHOOSE x \in S : \A y \in S : x <= y

RECURSIVE SortedKeys_Descending(_)
\* mutant of SortedKeys: the keys in decreasing order
SortedKeys_Descending(S) ==
    IF S = {} THEN <<>>
    ELSE SortedKeys_Descending(S \ {Min(S)}) \o <<Min(S)>>

RECURSIVE SortedKeys(_)
\* sorted(tool_calls_accumulator.keys())
SortedKeys(S) ==
    IF S = {} THEN <<>> ELSE <<Min(S)>> \o SortedKeys(S \ {Min(S)})

RECURSIVE BuildToolCalls(_, _, _)
\* the list tool_calls; n is the number of uuid4() calls made before it,
\* a slot without id draws the next one for "call_<uuid>"
BuildToolCalls(acc, keys, n) ==
    IF keys = <<>> THEN <<>>
    ELSE LET tc_data == acc[Head(keys)]
             drawn == ~Truthy(tc_data.id)
         IN  <<[id |-> IF drawn THEN "call_" \o Uuid(n + 1) ELSE tc_data.id,
                type |-> "function",
                function |-> [name |-> tc_data.function.name,
                              arguments |-> tc_data.function.arguments]]>>
             \o BuildToolCalls(acc, Tail(keys), IF drawn THEN n + 1 ELSE n)

\* number of slots of the accumulator that have no id
MissingIds(acc) == Cardinality({i \in DOMAIN acc : ~Truthy(acc[i].id)})

\* completed_message
CompletedMessage(content, tcs) ==
    IF tcs # <<>>
    THEN [role |-> "assistant", content |-> content, tool_calls |-> tcs]
    ELSE [role |-> "assistant", content |-> content]

(***************************************************************************)
(* The retry loop's except clauses.                                        *)
(***************************************************************************)
max_retries == 5
retry_delay == 4
\* the cap of the backoff, in seconds
BackoffCap == 60

\* litellm.RateLimitError, litellm.ServiceUnavailableError
Transient == {"RateLimitError", "ServiceUnavailableError"}

\* the exceptions acompletion or the iteration of its stream raise in the
\* model: the two above and one that is neither
Errors == Transient \cup {"APIConnectionError"}

\* str(e)
StrOf(e) == "litellm." \o e

\* the except clauses of the try inside the retry loop, in source order:
\* "except Exception" (raise e), "except (RateLimitError,
\* ServiceUnavailableError)" (retry), "except Exception" (raise e)
ExceptClauses ==
    <<[catches |-> Errors, handler |-> "raise"],
      [catches |-> Transient, handler |-> "retry"],
      [catches |-> Errors, handler |-> "raise"]>>

\* mutant of CaughtBy: the retry clause catches every exception
CaughtBy_RetryAll(e) == "retry"

\* Python runs the first clause whose class matches the exception
CaughtBy(e) ==
    ExceptClauses[Min({k \in 1..Len(ExceptClauses) :
                        e \in ExceptClauses[k].catches})].handler

\* wait_time = min(retry_delay * (2 ** attempt), 60)
WaitTime(a) ==
    IF retry_delay * (2 ^ a) < BackoffCap THEN retry_delay * (2 ^ a)
    ELSE BackoffCap

(***************************************************************************)
(* Notices: the Message objects execute enqueues.  type is metadata's      *)
(* "type" ("none" for a message without metadata).                         *)
(***************************************************************************)
Notice(id, type, text) == [message_id |-> id, type |-> type, text |-> text]

RetryText(a) ==
    "Rate limit hit. Waiting " \o ToString(WaitTime(a))
    \o "s before retry (" \o ToString(a + 1) \o "/"
    \o ToString(max_retries) \o ")..."

ExhaustedText(e) ==
    "Rate limit quota exceeded. Please try again later. (" \o StrOf(e) \o ")"

ErrorText(e) == "I encountered an error: " \o StrOf(e)

NoInputText == "I didn't receive any message. How can I help you?"

SystemPrompt == "You are Nexus, an IT Service Management assistant."

(***************************************************************************)
(* Tool dispatch.                                                          *)
(***************************************************************************)
\* available_functions: name -> the keyword parameters of the function
\* (all of them required)
available_functions ==
    ("vm_provisioning" :> {"cpu_cores", "ram_gb", "os_type"})
    @@ ("sap_access_request" :> {"system_id", "module", "access_type"})
    @@ ("check_ticket_status" :> {"ticket_id"})
    @@ ("create_web_app" :> {"app_name", "runtime", "region"})
    @@ ("request_rbac_access" :> {"user_email", "role", "scope"})
    @@ ("validate_vm_provisioning" :> {"cpu_cores", "ram_gb", "os_type"})
    @@ ("validate_web_app_creation" :> {"app_name", "runtime", "region"})
    @@ ("validate_rbac_request" :> {"user_email", "role"})
    @@ ("validate_sap_request" :> {"system_id", "module"})

\* json.loads on the argument texts the model's fragments can build: the
\* texts below parse to an object with the given keys, every other
\* concatenation of the fragments raises JSONDecodeError
JsonObjects ==
    ("{\"ticket_id\":\"T1\"}" :> {"ticket_id"}) @@ ("{}" :> {})
    @@ ("{\"cpu_cores\":\"two\",\"ram_gb\":4,\"os_type\":\"ubuntu\"}"
            :> {"cpu_cores", "ram_gb", "os_type"})

\* the keys of those objects whose value is a JSON string
JsonStringKeys ==
    ("{\"ticket_id\":\"T1\"}" :> {"ticket_id"}) @@ ("{}" :> {})
    @@ ("{\"cpu_cores\":\"two\",\"ram_gb\":4,\"os_type\":\"ubuntu\"}"
            :> {"cpu_cores", "os_type"})

JsonLoads(text) ==
    IF text \in DOMAIN JsonObjects
    THEN [ok |-> TRUE, keys |-> JsonObjects[text]]
    ELSE [ok |-> FALSE, keys |-> {}]

\* whether the try block reaches the call of the tool function and the
\* call binds its keyword arguments, so that the body runs
BodyRuns(fn_name, fn_args_str) ==
    /\ JsonLoads(fn_args_str).ok
    /\ fn_name \in DOMAIN available_functions
    /\ JsonLoads(fn_args_str).keys = available_functions[fn_name]

\* what the tool function returns (a JSON text; its random and clock
\* dependent fields are not modelled)
ToolReturn(fn_name) == "{" \o fn_name \o " response}"

\* the tool functions whose body raises on the parsed arguments: the
\* comparison "cpu_cores > 32" on a string, and app_name.lower() on a value
\* that is not a string; the other bodies only format their arguments
ToolRaises(fn_name, fn_args_str) ==
    \/ /\ fn_name = "validate_vm_provisioning"
       /\ "cpu_cores" \in JsonStringKeys[fn_args_str]
    \/ /\ fn_name \in {"create_web_app", "validate_web_app_creation"}
       /\ "app_name" \notin JsonStringKeys[fn_args_str]

\* str(e) of the exception a raising tool body leaves the try block with
RaisedText(fn_name) ==
    IF fn_name = "validate_vm_provisioning"
    THEN "'>' not supported between instances of 'str' and 'int'"
    ELSE "'int' object has no attribute 'lower'"

\* the string the "except Exception" clause of line 366 builds; str(e) of
\* a json.loads failure and of a call that cannot bind its keyword
\* arguments is modelled by the name of the exception class
ErrorExecutingTool(e) == "Error executing tool: " \o e

\* function_response of lines 356-367
FunctionResponse(fn_name, fn_args_str) ==
    IF ~JsonLoads(fn_args_str).ok
    THEN ErrorExecutingTool("JSONDecodeError")
    ELSE IF fn_name \in DOMAIN available_functions
         THEN IF JsonLoads(fn_args_str).keys = available_functions[fn_name]
              THEN IF ToolRaises(fn_name, fn_args_str)
                   THEN ErrorExecutingTool(RaisedText(fn_name))
                   ELSE ToolReturn(fn_name)
              ELSE ErrorExecutingTool("TypeError")
         ELSE "Error: Tool " \o fn_name \o " not found"

\* mutant of ToolMessage: the tool turn refers to its call by the tool's name
ToolMessage_RefersByName(tc, response) ==
    [role |-> "tool", tool_call_id |-> tc.function.name,
     name |-> tc.function.name, content |-> response]

\* the turn of lines 381-387 for the call tc and its result
ToolMessage(tc, response) ==
    [role |-> "tool", tool_call_id |-> tc.id, name |-> tc.function.name,
     content |-> response]

(***************************************************************************)
(* The deltas the generation capability delivers in the model.             *)
(***************************************************************************)
Frag(index, id, name, arguments) ==
    [index |-> index, id |-> id, name |-> name, arguments |-> arguments]

Delta(content, tcs) == [content |-> content, tool_calls |-> tcs]

\* deltas of the turn loop's streams
Deltas ==
    {Delta("Hi", <<>>),
     Delta(None, <<Frag(0, "call_A", "check_ticket_status",
                        "{\"ticket_id\":")>>),
     Delta("", <<Frag(1, "", "delete_everything", "{}"),
                 Frag(0, None, None, "\"T1\"}")>>)}

\* deltas of the streams tool dispatch is checked on: each carries whole
\* tool calls, registered and not, with argument texts that parse, that do
\* not, that are empty, that miss a parameter, and that make the body raise
DispatchDeltas ==
    {Delta(None, <<Frag(0, "call_A", "check_ticket_status",
                        "{\"ticket_id\":\"T1\"}"),
                   Frag(1, "call_B", "delete_everything", "")>>),
     Delta(None, <<Frag(0, "call_C", "delete_everything", "{}"),
                   Frag(1, None, None, "{}")>>),
     Delta(None, <<Frag(0, "call_E", "validate_vm_provisioning",
             "{\"cpu_cores\":\"two\",\"ram_gb\":4,\"os_type\":\"ubuntu\"}"),
                   Frag(1, "call_D", "check_ticket_status", "{}")>>),
     Delta(None, <<Frag(0, "call_F", "", "{\"ticket_id\":"),
                   Frag(1, "call_G", "check_ticket_status",
                        "{\"ticket_id\":")>>)}

\* deltas of the agent's streams when the host is checked
HostDeltas ==
    {Delta("Your VM is being provisioned", <<>>),
     Delta(None, <<Frag(0, "call_A", "check_ticket_status",
                        "{\"ticket_id\":\"T1\"}")>>)}

\* deltas of the streams the fold is checked on
FoldDeltas ==
    Deltas \cup
    {Delta("lo", <<>>),
     Delta(None, <<>>),
     Delta(None, <<Frag(2, None, "check_", None)>>),
     Delta("!", <<Frag(2, "call_C", "ticket_status", "{}"),
                  Frag(0, "call_B", None, None)>>)}

(***************************************************************************)
(* State after construction: execute has been called and has not run.      *)
(* The locals of execute are unbound in Python until their first           *)
(* assignment; the model gives them the values below until then.           *)
(***************************************************************************)
UserMessages == {"", "create a VM"}

\* the requests the backend serves at a time, the addresses they name and
\* the descriptors the agents at these addresses publish
Callers == {"r1", "r2"}

AgentUrls == {"http://agent-a", "http://agent-b"}

CardOf(agent_url) ==
    IF agent_url = "http://agent-a"
    THEN [name |-> "agent-a", streaming |-> TRUE, push |-> TRUE]
    ELSE [name |-> "agent-b", streaming |-> FALSE, push |-> FALSE]

\* the value of conn before get_or_create_connection has returned
NoConnection == [card |-> None, agent_url |-> None, object |-> 0]

\* a request slot in which no endpoint is running
IdleRequest ==
    [pc |-> "idle", kind |-> None, agent_url |-> None, use_push |-> FALSE,
     call |-> 0, conn |-> NoConnection, out |-> <<>>, mode |-> None,
     chunks |-> <<>>]

Init ==
    /\ pc = "start"
    /\ user_message \in UserMessages
    /\ messages = <<>>
    /\ attempt = 0
    /\ current_content = ""
    /\ tool_calls_accumulator = EmptyDict
    /\ turn_id = None
    /\ tool_calls = <<>>
    /\ tc_pos = 0
    /\ function_response = None
    /\ event_queue = <<>>
    /\ uuid_n = 0
    /\ received = <<>>
    /\ gen_log = <<>>
    /\ invocations = <<>>
    /\ last_error = None
    /\ sleeps = <<>>
    /\ host_pc = "streaming"
    /\ host_pos = 0
    /\ accumulated_text = ""
    /\ last_message_id = None
    /\ sse = <<>>
    /\ host_uuid_n = 0
    /\ conversions = <<>>
    /\ connections = EmptyDict
    /\ requests = [c \in Callers |-> IdleRequest]
    /\ calls_n = 0
    /\ conn_n = 0
    /\ card_fetches = <<>>
    /\ returns = <<>>
    /\ accumulated_envelopes = <<>>
    /\ db_messages = <<[role |-> "user", content |-> user_message]>>
    /\ chat_session = TRUE

\* the Generating phase a call of acompletion belongs to: one more than the
\* number of assistant messages appended so far
Phase == Cardinality({i \in 1..Len(messages) :
                        messages[i].role = "assistant"}) + 1

\* lines 84-85 raise: the debug file of line 84 cannot be opened or
\* written, or get_user_input fails. No try encloses these lines, so the
\* exception leaves execute and nothing is enqueued
ExecuteRaises ==
    /\ pc = "start"
    /\ pc' = "Raised"
    /\ UNCHANGED <<user_message, messages, attempt, current_content,
                   tool_calls_accumulator, turn_id, tool_calls, tc_pos,
                   function_response, event_queue, uuid_n, received, gen_log,
                   invocations, last_error, sleeps>>
    /\ UNCHANGED <<host_vars, cache_vars, store_vars>>

\* execute, from its entry to the first suspension: the prompt for an
\* empty user message, else the seeded conversation and the first
\* iteration of "while True" up to the call of acompletion
Execute ==
    /\ pc = "start"
    /\ IF ~Truthy(user_message)
       THEN /\ event_queue' = Append(event_queue,
                                Notice(Uuid(uuid_n + 1), "none", NoInputText))
            /\ uuid_n' = uuid_n + 1
            /\ pc' = "NoInput"
            /\ UNCHANGED <<messages, attempt>>
       ELSE /\ messages' = <<[role |-> "system", content |-> SystemPrompt],
                             [role |-> "user", content |-> user_message]>>
            /\ attempt' = 0
            /\ pc' = "calling"
            /\ UNCHANGED <<event_queue, uuid_n>>
    /\ UNCHANGED <<user_message, current_content, tool_calls_accumulator,
                   turn_id, tool_calls, tc_pos, function_response, received,
                   gen_log, invocations, last_error, sleeps>>
    /\ UNCHANGED <<host_vars, cache_vars, store_vars>>

\* mutant of FreshAccumulators: the accumulators are set up before the
\* loops only, an attempt goes on with what they hold
KeepAccumulators(content, acc) == [content |-> content, acc |-> acc]

\* the accumulators as lines 192-193 set them when a stream has opened
FreshAccumulators(content, acc) == [content |-> "", acc |-> EmptyDict]

\* acompletion returns a stream: lines 181-206
LLMOpen ==
    /\ pc = "calling"
    /\ Len(gen_log) < MaxGenCalls
    /\ gen_log' = Append(gen_log, [phase |-> Phase, attempt |-> attempt,
                                   outcome |-> "open"])
    /\ current_content' =
           FreshAccumulators(current_content, tool_calls_accumulator).content
    /\ tool_calls_accumulator' =
           FreshAccumulators(current_content, tool_calls_accumulator).acc
    /\ turn_id' = Uuid(uuid_n + 1)
    /\ uuid_n' = uuid_n + 1
    /\ received' = <<>>
    /\ pc' = "streaming"
    /\ UNCHANGED <<user_message, messages, attempt, tool_calls, tc_pos,
                   function_response, event_queue, invocations, last_error,
                   sleeps>>
    /\ UNCHANGED <<host_vars, cache_vars, store_vars>>

\* mutant of StreamChunk: the text received so far is written to the
\* conversation as it streams in
StreamChunk_AppendsPartial(d) ==
    /\ pc = "streaming"
    /\ current_content' = AddContent(current_content, d)
    /\ tool_calls_accumulator' =
           FoldToolCalls(tool_calls_accumulator, d.tool_calls)
    /\ received' = Append(received, d)
    /\ messages' = Append(messages,
           [role |-> "assistant", content |-> AddContent(current_content, d)])
    /\ UNCHANGED <<pc, user_message, attempt, turn_id, tool_calls,
                   tc_pos, function_response, event_queue, uuid_n, gen_log,
                   invocations, last_error, sleeps>>
    /\ UNCHANGED <<host_vars, cache_vars, store_vars>>

\* the stream delivers one chunk: the body of "async for", lines 207-241
StreamChunk(d) ==
    /\ pc = "streaming"
    /\ current_content' = AddContent(current_content, d)
    /\ tool_calls_accumulator' =
           FoldToolCalls(tool_calls_accumulator, d.tool_calls)
    /\ received' = Append(received, d)
    /\ UNCHANGED <<pc, user_message, messages, attempt, turn_id, tool_calls,
                   tc_pos, function_response, event_queue, uuid_n, gen_log,
                   invocations, last_error, sleeps>>
    /\ UNCHANGED <<host_vars, cache_vars, store_vars>>

\* what the failure of a generation attempt with exception e does, from the
\* except clause that catches it to the next suspension or the end of
\* execute: lines 274-310 and 391-400
HandleFailure(e) ==
    /\ last_error' = e
    /\ IF CaughtBy(e) = "retry"
       THEN IF attempt < max_retries - 1
            THEN /\ event_queue' = Append(event_queue,
                        Notice(Uuid(uuid_n + 1), "thinking",
                               RetryText(attempt)))
                 /\ sleeps' = Append(sleeps, WaitTime(attempt))
                 /\ attempt' = attempt + 1
                 /\ pc' = "calling"
            ELSE /\ event_queue' = Append(event_queue,
                        Notice(Uuid(uuid_n + 1), "error", ExhaustedText(e)))
                 /\ pc' = "Exhausted"
                 /\ UNCHANGED <<attempt, sleeps>>
       ELSE /\ event_queue' = Append(event_queue,
                   Notice(Uuid(uuid_n + 1), "error", ErrorText(e)))
            /\ pc' = "Failed"
            /\ UNCHANGED <<attempt, sleeps>>
    /\ uuid_n' = uuid_n + 1

\* acompletion raises e
LLMOpenFails(e) ==
    /\ pc = "calling"
    /\ Len(gen_log) < MaxGenCalls
    /\ gen_log' = Append(gen_log, [phase |-> Phase, attempt |-> attempt,
                                   outcome |-> e])
    /\ HandleFailure(e)
    /\ UNCHANGED <<user_message, messages, current_content,
                   tool_calls_accumulator, turn_id, tool_calls, tc_pos,
                   function_response, received, invocations>>
    /\ UNCHANGED <<host_vars, cache_vars, store_vars>>

\* the iteration of the stream raises e
StreamFails(e) ==
    /\ pc = "streaming"
    /\ gen_log' = [gen_log EXCEPT ![Len(gen_log)].outcome = e]
    /\ HandleFailure(e)
    /\ UNCHANGED <<user_message, messages, current_content,
                   tool_calls_accumulator, turn_id, tool_calls, tc_pos,
                   function_response, received, invocations>>
    /\ UNCHANGED <<host_vars, cache_vars, store_vars>>

\* mutant of IsFinal: a turn that has text ends the loop
IsFinal_WhenText(content, tcs) == content # "" \/ tcs = <<>>

\* "if not tool_calls": the turn whose message is (content, tcs) ends the loop
IsFinal(content, tcs) == tcs = <<>>

\* the stream ends: lines 243-273 build the completed message and leave
\* the retry loop, line 313 appends it, lines 326-335 send the final answer
\* when it has no tool calls, else the dispatch loop starts
StreamEnd ==
    /\ pc = "streaming"
    /\ LET tcs == BuildToolCalls(tool_calls_accumulator,
                                 SortedKeys(DOMAIN tool_calls_accumulator),
                                 uuid_n)
       IN  /\ tool_calls' = tcs
           /\ messages' = Append(messages,
                                 CompletedMessage(current_content, tcs))
           /\ uuid_n' = uuid_n + MissingIds(tool_calls_accumulator)
           /\ IF IsFinal(current_content, tcs)
              THEN /\ event_queue' = Append(event_queue,
                          Notice(turn_id, "answer", current_content))
                   /\ pc' = "Done"
                   /\ UNCHANGED tc_pos
              ELSE /\ pc' = "tool_notice"
                   /\ tc_pos' = 1
                   /\ UNCHANGED event_queue
    /\ gen_log' = [gen_log EXCEPT ![Len(gen_log)].outcome = "ok"]
    /\ UNCHANGED <<user_message, attempt, current_content,
                   tool_calls_accumulator, turn_id, function_response,
                   received, invocations, last_error, sleeps>>
    /\ UNCHANGED <<host_vars, cache_vars, store_vars>>

\* mutant of tc: the dispatch loop runs through the list from its end
tc_Reversed == tool_calls[Len(tool_calls) + 1 - tc_pos]

\* the tool call the dispatch loop is at
tc == tool_calls[tc_pos]

\* "Notify UI of Tool Call": lines 340-354
ToolCallNotice ==
    /\ pc = "tool_notice"
    /\ event_queue' = Append(event_queue,
           Notice(Uuid(uuid_n + 1), "tool_call",
                  "Calling tool: " \o tc.function.name \o "..."))
    /\ uuid_n' = uuid_n + 1
    /\ pc' = "tool_invoke"
    /\ UNCHANGED <<user_message, messages, attempt, current_content,
                   tool_calls_accumulator, turn_id, tool_calls, tc_pos,
                   function_response, received, gen_log, invocations,
                   last_error, sleeps>>
    /\ UNCHANGED <<host_vars, cache_vars, store_vars>>

\* mutant of ToolInvoke: the tool body is run a second time when its first
\* result is in
ToolInvoke_Reruns ==
    /\ pc = "tool_invoke"
    /\ function_response' =
           FunctionResponse(tc.function.name, tc.function.arguments)
    /\ invocations' =
           IF BodyRuns(tc.function.name, tc.function.arguments)
           THEN invocations
                \o <<[phase |-> Phase - 1, pos |-> tc_pos,
                      name |-> tc.function.name,
                      arguments |-> tc.function.arguments],
                     [phase |-> Phase - 1, pos |-> tc_pos,
                      name |-> tc.function.name,
                      arguments |-> tc.function.arguments]>>
           ELSE invocations
    /\ pc' = "tool_result"
    /\ UNCHANGED <<user_message, messages, attempt, current_content,
                   tool_calls_accumulator, turn_id, tool_calls, tc_pos,
                   event_queue, uuid_n, received, gen_log, last_error,
                   sleeps>>
    /\ UNCHANGED <<host_vars, cache_vars, store_vars>>

\* the try block of lines 356-367: parse the arguments, look the tool up,
\* call it; every exception becomes a string
ToolInvoke ==
    /\ pc = "tool_invoke"
    /\ function_response' =
           FunctionResponse(tc.function.name, tc.function.arguments)
    /\ invocations' =
           IF BodyRuns(tc.function.name, tc.function.arguments)
           THEN Append(invocations, [phase |-> Phase - 1, pos |-> tc_pos,
                                     name |-> tc.function.name,
                                     arguments |-> tc.function.arguments])
           ELSE invocations
    /\ pc' = "tool_result"
    /\ UNCHANGED <<user_message, messages, attempt, current_content,
                   tool_calls_accumulator, turn_id, tool_calls, tc_pos,
                   event_queue, uuid_n, received, gen_log, last_error,
                   sleeps>>
    /\ UNCHANGED <<host_vars, cache_vars, store_vars>>

\* "Notify UI of Tool Result": lines 370-379
ToolResultNotice ==
    /\ pc = "tool_result"
    /\ event_queue' = Append(event_queue,
           Notice(Uuid(uuid_n + 1), "tool_result",
                  "Tool returned: " \o function_response))
    /\ uuid_n' = uuid_n + 1
    /\ pc' = "tool_append"
    /\ UNCHANGED <<user_message, messages, attempt, current_content,
                   tool_calls_accumulator, turn_id, tool_calls, tc_pos,
                   function_response, received, gen_log, invocations,
                   last_error, sleeps>>
    /\ UNCHANGED <<host_vars, cache_vars, store_vars>>

\* a dispatch loop that gives up on a tool call whose result is an error
ToolAppend_AbortsOnError ==
    /\ pc = "tool_append"
    /\ IF function_response
              = ToolReturn(tool_calls[tc_pos].function.name)
       THEN /\ messages' = Append(messages,
                   ToolMessage(tool_calls[tc_pos], function_response))
            /\ IF tc_pos < Len(tool_calls)
               THEN /\ tc_pos' = tc_pos + 1
                    /\ pc' = "tool_notice"
                    /\ UNCHANGED attempt
               ELSE /\ attempt' = 0
                    /\ pc' = "calling"
                    /\ UNCHANGED tc_pos
            /\ UNCHANGED <<event_queue, uuid_n>>
       ELSE /\ event_queue' = Append(event_queue,
                   Notice(Uuid(uuid_n + 1), "error", function_response))
            /\ uuid_n' = uuid_n + 1
            /\ pc' = "Failed"
            /\ UNCHANGED <<messages, tc_pos, attempt>>
    /\ UNCHANGED <<user_message, current_content, tool_calls_accumulator,
                   turn_id, tool_calls, function_response, received, gen_log,
                   invocations, last_error, sleeps>>
    /\ UNCHANGED <<host_vars, cache_vars, store_vars>>

\* a dispatch loop that passes over a tool call without a name
ToolAppend_SkipsUnnamed ==
    /\ pc = "tool_append"
    /\ messages' = IF tool_calls[tc_pos].function.name = ""
                   THEN messages
                   ELSE Append(messages,
                            ToolMessage(tool_calls[tc_pos], function_response))
    /\ IF tc_pos < Len(tool_calls)
       THEN /\ tc_pos' = tc_pos + 1
            /\ pc' = "tool_notice"
            /\ UNCHANGED attempt
       ELSE /\ attempt' = 0
            /\ pc' = "calling"
            /\ UNCHANGED tc_pos
    /\ UNCHANGED <<user_message, current_content, tool_calls_accumulator,
                   turn_id, tool_calls, function_response, event_queue,
                   uuid_n, received, gen_log, invocations, last_error,
                   sleeps>>
    /\ UNCHANGED <<host_vars, cache_vars, store_vars>>

\* a dispatch loop that puts the tool-result turn in the place of the
\* last turn of the conversation
ToolAppend_Overwrites ==
    /\ pc = "tool_append"
    /\ messages' = [messages EXCEPT ![Len(messages)] =
                       ToolMessage(tool_calls[tc_pos], function_response)]
    /\ IF tc_pos < Len(tool_calls)
       THEN /\ tc_pos' = tc_pos + 1
            /\ pc' = "tool_notice"
            /\ UNCHANGED attempt
       ELSE /\ attempt' = 0
            /\ pc' = "calling"
            /\ UNCHANGED tc_pos
    /\ UNCHANGED <<user_message, current_content, tool_calls_accumulator,
                   turn_id, tool_calls, function_response, event_queue,
                   uuid_n, received, gen_log, invocations, last_error,
                   sleeps>>
    /\ UNCHANGED <<host_vars, cache_vars, store_vars>>

\* "Append result to messages", lines 382-387, then the next tool call or,
\* after the last one, the next iteration of "while True" up to the call
\* of acompletion
\* mutant of ToolAppend: a maximum turn count of one, the loop ends after
\* the batch of its first turn instead of generating again
ToolAppend_SingleTurn ==
    /\ pc = "tool_append"
    /\ messages' = Append(messages, ToolMessage(tc, function_response))
    /\ IF tc_pos < Len(tool_calls)
       THEN /\ tc_pos' = tc_pos + 1
            /\ pc' = "tool_notice"
            /\ UNCHANGED attempt
       ELSE /\ attempt' = 0
            /\ pc' = "Done"
            /\ UNCHANGED tc_pos
    /\ UNCHANGED <<user_message, current_content, tool_calls_accumulator,
                   turn_id, tool_calls, function_response, event_queue,
                   uuid_n, received, gen_log, invocations, last_error,
                   sleeps>>
    /\ UNCHANGED <<host_vars, cache_vars, store_vars>>

ToolAppend ==
    /\ pc = "tool_append"
    /\ messages' = Append(messages, ToolMessage(tc, function_response))
    /\ IF tc_pos < Len(tool_calls)
       THEN /\ tc_pos' = tc_pos + 1
            /\ pc' = "tool_notice"
            /\ UNCHANGED attempt
       ELSE /\ attempt' = 0
            /\ pc' = "calling"
            /\ UNCHANGED tc_pos
    /\ UNCHANGED <<user_message, current_content, tool_calls_accumulator,
                   turn_id, tool_calls, function_response, event_queue,
                   uuid_n, received, gen_log, invocations, last_error,
                   sleeps>>
    /\ UNCHANGED <<host_vars, cache_vars, store_vars>>

Next ==
    \/ Execute
    \/ ExecuteRaises
    \/ LLMOpen
    \/ \E e \in Errors : LLMOpenFails(e)
    \/ \E d \in Deltas : Len(received) < MaxChunks /\ StreamChunk(d)
    \/ \E e \in Errors : StreamFails(e)
    \/ StreamEnd
    \/ ToolCallNotice
    \/ ToolInvoke
    \/ ToolResultNotice
    \/ ToolAppend

Spec == Init /\ [][Next]_vars

\* the runs in which every call returns: acompletion and the iteration of
\* its stream deliver or raise, a tool invocation returns, and the event
\* loop resumes execute after each await
LiveSpec == Spec /\ WF_vars(Next)

(***************************************************************************)
(* The fold alone: the first stream of a run, over a wider set of deltas.  *)
(***************************************************************************)
FoldNext ==
    \/ Execute
    \/ LLMOpen
    \/ \E d \in FoldDeltas : Len(received) < MaxFoldChunks /\ StreamChunk(d)
    \/ StreamEnd

FoldSpec == Init /\ [][FoldNext]_vars

(***************************************************************************)
(* Tool dispatch: the turn loop without generation failures, over streams  *)
(* of whole tool calls.                                                    *)
(***************************************************************************)
DispatchNext ==
    \/ Execute
    \/ LLMOpen
    \/ \E d \in DispatchDeltas :
           Len(received) < MaxDispatchChunks /\ StreamChunk(d)
    \/ StreamEnd
    \/ ToolCallNotice
    \/ ToolInvoke
    \/ ToolResultNotice
    \/ ToolAppend

DispatchSpec == Init /\ [][DispatchNext]_vars

(***************************************************************************)
(* The host: HostAgent (src/backend/core/a2a_host.py), A2UIGenerator       *)
(* (src/backend/core/a2ui_generator.py) and generate_stream of chat_stream *)
(* (src/backend/main.py).  A chunk is the dict _process_response builds,   *)
(* [text, type, message_id]: type is "none" for metadata without "type",   *)
(* message_id is None for a dict without "message_id".  A component is a   *)
(* record of its id, the name of its kind and the kind's properties; an    *)
(* envelope is the list of the components of its surfaceUpdate.  The       *)
(* host's uuid4() values are distinct from each other and from the         *)
(* agent's.                                                                *)
(***************************************************************************)
HostUuid(n) == "host-uuid-" \o ToString(n)

\* _process_response on a Message: the text of its parts, its metadata and
\* its message id
ProcessResponse(n) ==
    [text |-> n.text, type |-> n.type, message_id |-> n.message_id]

\* _process_error_to_dict
ProcessErrorToDict(e) ==
    [text |-> "Error: " \o e, type |-> "error", message_id |-> None]

\* metadata.get("type", "text")
MsgType(chunk) == IF chunk.type = "none" THEN "text" ELSE chunk.type

\* mutant of UsageHint: a tool result is given no style
UsageHint_PlainResult(msg_type) ==
    IF msg_type = "thinking" THEN "subtle"
    ELSE IF msg_type = "tool_call" THEN "code"
    ELSE IF msg_type = "error" THEN "error"
    ELSE None

\* usage_hint of convert_to_a2ui
UsageHint(msg_type) ==
    IF msg_type = "thinking" THEN "subtle"
    ELSE IF msg_type \in {"tool_call", "tool_result"} THEN "code"
    ELSE IF msg_type = "error" THEN "error"
    ELSE None

\* the Text component; usageHint is set only when there is a hint
TextComponent(id, text, hint) ==
    IF Truthy(hint)
    THEN [id |-> id, kind |-> "Text", text |-> text, usageHint |-> hint]
    ELSE [id |-> id, kind |-> "Text", text |-> text]

\* the root Column component
RootComponent(child_ids) ==
    [id |-> "root", kind |-> "Column", children |-> child_ids]

\* mutant of FragmentId: one identifier for every text notice
FragmentId_Constant(raw_msg_id, fresh) == "msg_text"

\* msg_id of convert_to_a2ui; fresh is the uuid4() drawn when the chunk has
\* no message id
FragmentId(raw_msg_id, fresh) ==
    IF Truthy(raw_msg_id) THEN "msg_" \o raw_msg_id ELSE "msg_" \o fresh

\* convert_to_a2ui: the components of the envelope
ConvertToA2UI(chunk, fresh) ==
    LET msg_id == FragmentId(chunk.message_id, fresh)
    IN  <<TextComponent(msg_id, chunk.text, UsageHint(MsgType(chunk))),
          RootComponent(<<msg_id>>)>>

\* the message ids of the notices of a remote agent other than the loop
RemoteIds == {"remote-1"}

\* the message ids and uuid4() values drawn so far or drawn next
RawIds ==
    {Uuid(n) : n \in 1..uuid_n}
    \cup {HostUuid(n) : n \in 1..(host_uuid_n + 1)}
    \cup RemoteIds

\* cid.startswith("msg_") or cid.startswith("gen_")
IsMessageId(cid) ==
    cid \in {"msg_" \o x : x \in RawIds} \cup {"gen_" \o x : x \in RawIds}

\* the loop of generate_stream that takes the id of the first component
\* named msg_ or gen_ from the envelope, if there is one
RECURSIVE LastMessageId(_, _)
LastMessageId(comps, before) ==
    IF comps = <<>> THEN before
    ELSE IF IsMessageId(Head(comps).id) THEN Head(comps).id
    ELSE LastMessageId(Tail(comps), before)

\* message_id.replace("msg_", "") on a fragment id made by FragmentId
StripMsg(id) ==
    IF \E x \in RawIds : "msg_" \o x = id
    THEN CHOOSE x \in RawIds : "msg_" \o x = id
    ELSE id

\* the loop of generate_components that gives an id to the components the
\* classification capability returned without one; n uuid4() values have
\* been drawn before
RECURSIVE EnsureIds(_, _)
EnsureIds(comps, n) ==
    IF comps = <<>> THEN <<>>
    ELSE IF "id" \in DOMAIN Head(comps)
         THEN <<Head(comps)>> \o EnsureIds(Tail(comps), n)
         ELSE <<[id |-> "gen_" \o HostUuid(n + 1)] @@ Head(comps)>>
              \o EnsureIds(Tail(comps), n + 1)

\* the number of uuid4() values that loop draws
MissingCompIds(comps) ==
    Cardinality({k \in 1..Len(comps) : "id" \notin DOMAIN comps[k]})

\* generate_envelope: the components, then a root that lists their ids
GenerateEnvelope(comps) ==
    comps \o <<RootComponent([k \in 1..Len(comps) |-> comps[k].id])>>

\* the "components" lists the classification capability answers with in
\* the model, for the target id and the text of its prompt
RichReplies(target, text) ==
    {<<>>,
     <<[id |-> target, kind |-> "Text", text |-> text]>>,
     <<[id |-> target, kind |-> "Text", text |-> text],
       [kind |-> "FormCard", title |-> "Details"]>>,
     <<[id |-> "form_1", kind |-> "FormCard", title |-> "Details"],
       [id |-> "form_1", kind |-> "TableCard", title |-> "Resources"]>>}

\* the errors of the remote stream in the model
HostErrors == {"ReadTimeout"}

\* the chunks without message id converted so far
IdlessConversions ==
    {i \in 1..Len(conversions) : conversions[i].message_id = None}

\* the body of the "async for" of generate_stream for one chunk: convert,
\* accumulate the text, take the fragment id, send the envelope
HostConverts(chunk) ==
    LET env == ConvertToA2UI(chunk, HostUuid(host_uuid_n + 1))
    IN  /\ host_uuid_n' = IF Truthy(chunk.message_id)
                          THEN host_uuid_n ELSE host_uuid_n + 1
        /\ conversions' = Append(conversions,
               [message_id |-> chunk.message_id, id |-> env[1].id,
                chunk |-> chunk])
        /\ accumulated_text' = accumulated_text \o chunk.text
        /\ last_message_id' = LastMessageId(env, last_message_id)
        /\ accumulated_envelopes' = Append(accumulated_envelopes, env)
        /\ sse' = Append(sse, [components |-> env])
        /\ UNCHANGED <<db_messages, chat_session>>

\* the remote stream delivers the next notice of the agent
HostChunk ==
    /\ host_pc = "streaming"
    /\ host_pos < Len(event_queue)
    /\ HostConverts(ProcessResponse(event_queue[host_pos + 1]))
    /\ host_pos' = host_pos + 1
    /\ UNCHANGED <<host_pc, agent_vars, cache_vars>>

\* the remote stream delivers an error chunk: stream_agent, lines 163-166
HostErrorChunk(e) ==
    /\ host_pc = "streaming"
    /\ Cardinality(IdlessConversions) < MaxHostErrors
    /\ HostConverts(ProcessErrorToDict(e))
    /\ UNCHANGED <<host_pc, host_pos, agent_vars, cache_vars>>

\* the connection or the remote stream raises: stream_agent yields the
\* error as a chunk (lines 179-182) and ends
HostStreamRaises(e) ==
    /\ host_pc = "streaming"
    /\ HostConverts(ProcessErrorToDict(e))
    /\ host_pc' = "finished"
    /\ UNCHANGED <<host_pos, agent_vars, cache_vars>>

\* the agent has ended and all its notices are delivered: the remote
\* stream ends
HostStreamEnds ==
    /\ host_pc = "streaming"
    /\ pc \in {"Done", "Failed", "Exhausted", "NoInput"}
    /\ host_pos = Len(event_queue)
    /\ host_pc' = "finished"
    /\ UNCHANGED <<host_pos, accumulated_text, last_message_id, sse,
                   host_uuid_n, conversions, agent_vars, cache_vars, store_vars>>

\* target_id of generate_components
TargetId ==
    IF Truthy(last_message_id) THEN last_message_id
    ELSE "msg_" \o HostUuid(host_uuid_n + 1)

\* generate_rich_ui succeeds: the classification capability answers with
\* the components r and the envelope made of them is sent with the yield
\* of main.py, line 274; the generator is suspended there, and the
\* envelope is not yet in accumulated_envelopes (line 275 runs when the
\* generator is resumed, see HostComplete)
HostRichReply(r) ==
    /\ host_pc = "finished"
    /\ accumulated_text # ""
    /\ LET drawn == IF Truthy(last_message_id) THEN 0 ELSE 1
           rich_envelope == GenerateEnvelope(EnsureIds(r, host_uuid_n + drawn))
       IN  /\ sse' = Append(sse, [components |-> rich_envelope])
           /\ host_uuid_n' = host_uuid_n + drawn + MissingCompIds(r)
    /\ host_pc' = "completing"
    /\ UNCHANGED <<host_pos, accumulated_text, last_message_id, conversions,
                   store_vars, agent_vars, cache_vars>>

\* The ways generate_rich_ui fails. "at" is the call that raises:
\* get_generator() of a2a_host.py, line 313, which is before line 314 binds
\* metadata to {"type": "answer", "role": "agent"}, or generate_envelope of
\* line 317, which is after it. "ids" is the number of component ids
\* generate_components has drawn in a2ui_generator.py, line 188, before it
\* raises: none when the completion raises or its answer is not JSON, one
\* when the first component of the answer is not an object (the uuid4 of
\* line 188 is drawn, then the assignment to comp["id"] raises)
RichFailures ==
    { [at |-> "get_generator", ids |-> 0],
      [at |-> "generate_envelope", ids |-> 0],
      [at |-> "generate_envelope", ids |-> 1] }

\* the metadata type of the chunk the fallback converts: a2a_host.py,
\* lines 314 and 323
FallbackType(f) == IF f.at = "get_generator" THEN "none" ELSE "answer"

\* the identifiers generate_components draws before it raises: the
\* target_id of a2ui_generator.py, line 143, when there is no message id,
\* and the component ids of line 188
FallbackDrawn(f) ==
    IF f.at = "get_generator" THEN 0
    ELSE (IF Truthy(last_message_id) THEN 0 ELSE 1) + f.ids

\* generate_rich_ui fails in the way f and falls back to convert_to_a2ui
\* on the accumulated text (a2a_host.py, lines 320-329); the envelope of
\* the fallback is sent with the yield of main.py, line 274
HostRichFails(f) ==
    /\ host_pc = "finished"
    /\ accumulated_text # ""
    /\ LET resp == [text |-> accumulated_text, type |-> FallbackType(f),
                    message_id |-> IF Truthy(last_message_id)
                                   THEN StripMsg(last_message_id) ELSE None]
           n == host_uuid_n + FallbackDrawn(f)
           env == ConvertToA2UI(resp, HostUuid(n + 1))
       IN  /\ sse' = Append(sse, [components |-> env])
           /\ conversions' = Append(conversions,
                  [message_id |-> resp.message_id, id |-> env[1].id,
                   chunk |-> resp])
           /\ host_uuid_n' = IF Truthy(resp.message_id) THEN n ELSE n + 1
    /\ host_pc' = "completing"
    /\ UNCHANGED <<host_pos, accumulated_text, last_message_id, store_vars,
                   agent_vars, cache_vars>>

\* The generator is resumed. After the rich step it appends the envelope
\* it has just sent, the local rich_envelope, to accumulated_envelopes
\* (main.py, line 275); then, or at once when there was no text, it sends
\* the completion event (line 281)
HostComplete ==
    /\ \/ /\ host_pc = "completing"
          /\ accumulated_envelopes' =
                 Append(accumulated_envelopes, sse[Len(sse)].components)
       \/ /\ host_pc = "finished"
          /\ accumulated_text = ""
          /\ UNCHANGED accumulated_envelopes
    /\ sse' = Append(sse, [type |-> "complete"])
    /\ host_pc' = "complete"
    /\ UNCHANGED <<host_pos, accumulated_text, last_message_id, host_uuid_n,
                   conversions, db_messages, chat_session, agent_vars,
                   cache_vars>>

\* the text of the event the outer except of generate_stream sends
StreamErrorText == "An unexpected error occurred during streaming."

\* "Persist Agent Response": lines 284-292, after the completion event was
\* sent; the list of envelopes is written as one JSON text, which the model
\* keeps as the list. The row names its session by session_id only: when
\* the session was deleted meanwhile, a database that does not enforce the
\* foreign key takes the row (this action), one that does raises
\* (HostPersistFails)
HostPersist ==
    /\ host_pc = "complete"
    /\ db_messages' =
           IF accumulated_envelopes # <<>>
           THEN Append(db_messages,
                       [role |-> "agent", content |-> accumulated_envelopes])
           ELSE db_messages
    /\ host_pc' = "closed"
    /\ UNCHANGED <<host_pos, accumulated_text, last_message_id, sse,
                   host_uuid_n, conversions, accumulated_envelopes,
                   chat_session, agent_vars, cache_vars>>

\* the database session or its commit raises in lines 285-292: these
\* lines are inside the try of line 224, whose except (lines 294-302)
\* sends the error event; no row is written
HostPersistFails ==
    /\ host_pc = "complete"
    /\ accumulated_envelopes # <<>>
    /\ sse' = Append(sse, [type |-> "error", message |-> StreamErrorText])
    /\ host_pc' = "closed"
    /\ UNCHANGED <<host_pos, accumulated_text, last_message_id, host_uuid_n,
                   conversions, agent_vars, cache_vars, store_vars>>

HostNext ==
    \/ Execute
    \/ LLMOpen
    \/ \E d \in HostDeltas : Len(received) < MaxHostChunks /\ StreamChunk(d)
    \/ StreamEnd
    \/ ToolCallNotice
    \/ ToolInvoke
    \/ ToolResultNotice
    \/ ToolAppend
    \/ HostChunk
    \/ \E e \in HostErrors : HostErrorChunk(e)
    \/ \E e \in HostErrors : HostStreamRaises(e)
    \/ HostStreamEnds
    \/ \E r \in RichReplies(TargetId, accumulated_text) : HostRichReply(r)
    \/ (\E f \in RichFailures : HostRichFails(f))
    \/ HostComplete

HostSpec == Init /\ [][HostNext]_vars

(***************************************************************************)
(* The response of chat_stream to its end: the stream, the completion      *)
(* event, and the write of the agent message that follows it.              *)
(***************************************************************************)
\* The endpoint delete_session on the session of the request: main.py,
\* lines 382-391. It has no await, so it runs between two steps of
\* generate_stream, or after it. A session that is not there is answered
\* with 404 and nothing changes; otherwise the Session row is deleted and,
\* by the cascade "all, delete-orphan" of its relationship messages
\* (models/session.py, line 12), every Message row of the session with it
DeleteSession ==
    /\ chat_session
    /\ chat_session' = FALSE
    /\ db_messages' = <<>>
    /\ UNCHANGED <<accumulated_envelopes, agent_vars, host_vars, cache_vars>>

PersistNext ==
    \/ HostNext
    \/ HostPersist
    \/ HostPersistFails
    \/ DeleteSession

PersistSpec == Init /\ [][PersistNext]_vars

(***************************************************************************)
(* Cancellation of a request of the agent: the server calls cancel with    *)
(* the request's event queue while execute is suspended at one of its      *)
(* awaits.  cancel enqueues its notice and returns; it keeps no flag and   *)
(* execute tests none.                                                     *)
(***************************************************************************)
\* cancel has been called for the request
Cancelled == \E i \in 1..Len(event_queue) : event_queue[i].type = "system"

\* ITServiceAgentExecutor.cancel
Cancel ==
    /\ pc \notin {"start", "Done", "Failed", "Exhausted", "NoInput", "Raised"}
    /\ ~Cancelled
    /\ event_queue' = Append(event_queue,
           Notice(Uuid(uuid_n + 1), "system", "Task cancelled."))
    /\ uuid_n' = uuid_n + 1
    /\ UNCHANGED <<pc, user_message, messages, attempt, current_content,
                   tool_calls_accumulator, turn_id, tool_calls, tc_pos,
                   function_response, received, gen_log, invocations,
                   last_error, sleeps, host_vars, cache_vars, store_vars>>

CancelNext ==
    \/ Execute
    \/ LLMOpen
    \/ \E d \in HostDeltas : Len(received) < MaxHostChunks /\ StreamChunk(d)
    \/ StreamEnd
    \/ ToolCallNotice
    \/ ToolInvoke
    \/ ToolResultNotice
    \/ ToolAppend
    \/ Cancel

CancelSpec == Init /\ [][CancelNext]_vars

(***************************************************************************)
(* The conversion of the notices of any remote agent: the notice kinds the *)
(* host knows, one it does not know and a notice without kind, each with   *)
(* and without a message id.                                               *)
(***************************************************************************)
MaxConversions == 2

NoticeKinds ==
    {"thinking", "tool_call", "tool_result", "error", "answer", "text",
     "system", "none"}

RemoteNotices ==
    {Notice(id, kind, "text of " \o kind) :
        id \in RemoteIds \cup {None}, kind \in NoticeKinds}

\* the remote stream delivers the notice n: stream_agent yields
\* _process_response of it and generate_stream converts it
HostReceives(n) ==
    /\ host_pc = "streaming"
    /\ Len(conversions) < MaxConversions
    /\ HostConverts(ProcessResponse(n))
    /\ UNCHANGED <<host_pc, host_pos, agent_vars, cache_vars>>

ConvertNext == \E n \in RemoteNotices : HostReceives(n)

ConvertSpec == Init /\ [][ConvertNext]_vars

(***************************************************************************)
(* The fragments of one response: generate_stream over a remote stream of  *)
(* such notices and of error chunks that ends by raising, with the         *)
(* fallback conversion of the rich-UI step and the completion event.       *)
(***************************************************************************)
FragmentNext ==
    \/ \E n \in RemoteNotices : HostReceives(n)
    \/ \E e \in HostErrors : HostErrorChunk(e)
    \/ \E e \in HostErrors : HostStreamRaises(e)
    \/ (\E f \in RichFailures : HostRichFails(f))
    \/ HostComplete

FragmentSpec == Init /\ [][FragmentNext]_vars

(***************************************************************************)
(* The connection cache of the HostAgent that the endpoints of the backend *)
(* share (host_agent, src/backend/main.py line 61).  The endpoints are     *)
(* coroutines of one event loop: a request runs until its next await, and  *)
(* the only await of get_or_create_connection is the fetch of the agent    *)
(* card.  A connection is the RemoteAgentConnections object, told from     *)
(* the others by the order of its construction.                            *)
(***************************************************************************)
MaxCalls == 3

MaxOut == 1

\* chunks the remote stream delivers to one relay
MaxRelayChunks == 3

\* RemoteAgentConnections(agent_card, agent_url), the n-th constructed
RemoteAgentConnections(agent_card, agent_url, n) ==
    [card |-> agent_card, agent_url |-> agent_url, object |-> n]

\* the request c is in get_or_create_connection or past it
Running(c) == requests[c].pc \in {"resolving", "connected"}

\* get_or_create_connection up to its first await or to its return: a hit
\* returns the cached connection, a miss begins to fetch the agent card
GetOrCreateConnection(c, kind, agent_url, use_push) ==
    /\ ~Running(c)
    /\ calls_n < MaxCalls
    /\ calls_n' = calls_n + 1
    /\ LET req == [IdleRequest EXCEPT !.kind = kind, !.agent_url = agent_url,
                                      !.use_push = use_push,
                                      !.call = calls_n + 1]
       IN  IF agent_url \in DOMAIN connections
           THEN /\ requests' = [requests EXCEPT ![c] =
                       [req EXCEPT !.pc = "connected",
                                   !.conn = connections[agent_url]]]
                /\ returns' = Append(returns,
                       [call |-> calls_n + 1, agent_url |-> agent_url,
                        conn |-> connections[agent_url], hit |-> TRUE,
                        at |-> calls_n + 1])
                /\ UNCHANGED card_fetches
           ELSE /\ requests' = [requests EXCEPT ![c] =
                       [req EXCEPT !.pc = "resolving"]]
                /\ card_fetches' = Append(card_fetches,
                       [call |-> calls_n + 1, agent_url |-> agent_url])
                /\ UNCHANGED returns
    /\ UNCHANGED <<connections, conn_n>>

\* POST /api/chat/stream: generate_stream iterates stream_agent, which
\* begins with get_or_create_connection
ChatStream(c, agent_url) ==
    /\ GetOrCreateConnection(c, "chat_stream", agent_url, FALSE)
    /\ UNCHANGED <<agent_vars, host_vars, store_vars>>

\* POST /api/chat: chat awaits call_agent, which begins with
\* get_or_create_connection; use_push only decides whether a webhook_url
\* is made, and call_agent does not use its webhook_url
Chat(c, agent_url, use_push) ==
    /\ GetOrCreateConnection(c, "chat", agent_url, use_push)
    /\ UNCHANGED <<agent_vars, host_vars, store_vars>>

\* the agent card arrives: the connection is constructed, stored under the
\* address and returned (lines 65-66 and 71, no await in between)
CardResolved(c) ==
    /\ requests[c].pc = "resolving"
    /\ LET agent_url == requests[c].agent_url
           conn == RemoteAgentConnections(CardOf(agent_url), agent_url,
                                          conn_n + 1)
       IN  /\ conn_n' = conn_n + 1
           /\ connections' = (agent_url :> conn) @@ connections
           /\ requests' = [requests EXCEPT ![c].pc = "connected",
                                           ![c].conn = conn]
           /\ returns' = Append(returns,
                  [call |-> requests[c].call, agent_url |-> agent_url,
                   conn |-> conn, hit |-> FALSE, at |-> calls_n])
    /\ UNCHANGED <<calls_n, card_fetches, agent_vars, host_vars, store_vars>>

\* mutant of CardFails: stream_agent lets the exception of
\* get_or_create_connection pass instead of yielding it as a chunk
CardFails_Propagates(c, e) ==
    /\ requests[c].pc = "resolving"
    /\ requests' = [requests EXCEPT ![c].pc = "raised"]
    /\ UNCHANGED <<connections, calls_n, conn_n, card_fetches, returns,
                   agent_vars, host_vars, store_vars>>

\* the agent card cannot be fetched or parsed: get_or_create_connection
\* raises (lines 67-69).  stream_agent catches it and yields the error as
\* its only chunk (lines 179-182); call_agent lets it pass and chat
\* answers with HTTP 500
CardFails(c, e) ==
    /\ requests[c].pc = "resolving"
    /\ requests' = [requests EXCEPT ![c] =
           IF requests[c].kind = "chat_stream"
           THEN [@ EXCEPT !.pc = "ended", !.mode = "streaming",
                          !.out = <<ProcessErrorToDict(e)>>]
           ELSE [@ EXCEPT !.pc = "raised"]]
    /\ UNCHANGED <<connections, calls_n, conn_n, card_fetches, returns,
                   agent_vars, host_vars, store_vars>>

\* stream_agent: conn.stream_message delivers a notice of the agent
RemoteYields(c, n) ==
    /\ requests[c].pc = "connected"
    /\ requests[c].kind = "chat_stream"
    /\ Len(requests[c].out) < MaxOut
    /\ requests' = [requests EXCEPT ![c].mode = "streaming",
                                    ![c].out = Append(@, ProcessResponse(n)),
                                    ![c].chunks = Append(@, [result |-> n])]
    /\ UNCHANGED <<connections, calls_n, conn_n, card_fetches, returns,
                   agent_vars, host_vars, store_vars>>

\* a chunk of conn.stream_message is a record that has the field error
\* (a JSON-RPC error response), the field result (a success response, the
\* result a notice of the agent), or neither
HasError(chunk) == "error" \in DOMAIN chunk /\ Truthy(chunk.error)

HasResult(chunk) == "result" \in DOMAIN chunk

\* mutant of RelayOf: a chunk without result and error is relayed as an
\* empty text
RelayOf_KeepaliveShown(chunk) ==
    IF HasError(chunk) THEN <<ProcessErrorToDict(chunk.error)>>
    ELSE IF HasResult(chunk) THEN <<ProcessResponse(chunk.result)>>
    ELSE <<[text |-> "", type |-> "none", message_id |-> None]>>

\* what the body of "async for chunk in conn.stream_message(request)"
\* yields for one chunk: lines 163-175
RelayOf(chunk) ==
    IF HasError(chunk) THEN <<ProcessErrorToDict(chunk.error)>>
    ELSE IF HasResult(chunk) THEN <<ProcessResponse(chunk.result)>>
    ELSE <<>>

\* stream_agent: conn.stream_message delivers a chunk and the loop body
\* runs for it
RemoteChunk(c, chunk) ==
    /\ requests[c].pc = "connected"
    /\ requests[c].kind = "chat_stream"
    /\ requests' = [requests EXCEPT ![c].mode = "streaming",
                                    ![c].out = @ \o RelayOf(chunk),
                                    ![c].chunks = Append(@, chunk)]
    /\ UNCHANGED <<connections, calls_n, conn_n, card_fetches, returns,
                   agent_vars, host_vars, store_vars>>

\* stream_agent: the stream of conn.stream_message ends
RemoteEnds(c) ==
    /\ requests[c].pc = "connected"
    /\ requests[c].kind = "chat_stream"
    /\ requests' = [requests EXCEPT ![c].pc = "ended",
                                    ![c].mode = "streaming"]
    /\ UNCHANGED <<connections, calls_n, conn_n, card_fetches, returns,
                   agent_vars, host_vars, store_vars>>

\* stream_agent: conn.stream_message raises, the error is the last chunk
RemoteRaises(c, e) ==
    /\ requests[c].pc = "connected"
    /\ requests[c].kind = "chat_stream"
    /\ requests' = [requests EXCEPT ![c].pc = "ended",
                                    ![c].mode = "streaming",
                                    ![c].out = Append(@, ProcessErrorToDict(e))]
    /\ UNCHANGED <<connections, calls_n, conn_n, card_fetches, returns,
                   agent_vars, host_vars, store_vars>>

\* the transport call_agent uses: conn.send_message, whatever the agent
\* card of the connection and use_push say
ChatMode(card, use_push) == "polling"

\* call_agent: conn.send_message answers with the agent's message
SendMessage(c, n) ==
    /\ requests[c].pc = "connected"
    /\ requests[c].kind = "chat"
    /\ requests' = [requests EXCEPT ![c].pc = "ended",
           ![c].mode = ChatMode(requests[c].conn.card, requests[c].use_push),
           ![c].out = <<ProcessResponse(n)>>]
    /\ UNCHANGED <<connections, calls_n, conn_n, card_fetches, returns,
                   agent_vars, host_vars, store_vars>>

\* call_agent: conn.send_message raises or answers with an error, and
\* chat answers with HTTP 500
SendMessageFails(c) ==
    /\ requests[c].pc = "connected"
    /\ requests[c].kind = "chat"
    /\ requests' = [requests EXCEPT ![c].pc = "raised",
           ![c].mode = ChatMode(requests[c].conn.card, requests[c].use_push)]
    /\ UNCHANGED <<connections, calls_n, conn_n, card_fetches, returns,
                   agent_vars, host_vars, store_vars>>

\* the notice a remote agent answers with in the model
AgentReplies == {Notice("remote-1", "answer", "ticket T1 is open")}

CacheNext ==
    \/ \E c \in Callers, u \in AgentUrls : ChatStream(c, u)
    \/ \E c \in Callers, u \in AgentUrls, p \in BOOLEAN : Chat(c, u, p)
    \/ \E c \in Callers : CardResolved(c)
    \/ \E c \in Callers, e \in HostErrors : CardFails(c, e)
    \/ \E c \in Callers, n \in AgentReplies : RemoteYields(c, n)
    \/ \E c \in Callers : RemoteEnds(c)
    \/ \E c \in Callers, e \in HostErrors : RemoteRaises(c, e)
    \/ \E c \in Callers, n \in AgentReplies : SendMessage(c, n)
    \/ \E c \in Callers : SendMessageFails(c)

CacheSpec == Init /\ [][CacheNext]_vars

\* the requests of the streaming endpoint alone
StreamNext ==
    \/ \E c \in Callers, u \in AgentUrls : ChatStream(c, u)
    \/ \E c \in Callers : CardResolved(c)
    \/ \E c \in Callers, e \in HostErrors : CardFails(c, e)
    \/ \E c \in Callers, n \in AgentReplies : RemoteYields(c, n)
    \/ \E c \in Callers : RemoteEnds(c)
    \/ \E c \in Callers, e \in HostErrors : RemoteRaises(c, e)

StreamSpec == Init /\ [][StreamNext]_vars

(***************************************************************************)
(* The relay of stream_agent for one request, over remote streams of       *)
(* result chunks, error chunks and chunks with neither.                    *)
(***************************************************************************)
\* the notices the remote agent streams when the relay is checked
RelayReplies ==
    AgentReplies
    \cup {Notice("remote-2", "tool_call", "Calling tool: check_ticket_status...")}

\* the chunks conn.stream_message delivers when the relay is checked
RemoteChunks ==
    {[result |-> n] : n \in RelayReplies}
    \cup {[error |-> e] : e \in HostErrors}
    \cup {[id |-> "req-1"]}

\* the request whose relay is checked
RelayCallers == {"r1"}

RelayNext ==
    \/ \E c \in RelayCallers, u \in AgentUrls : ChatStream(c, u)
    \/ \E c \in RelayCallers : CardResolved(c)
    \/ \E c \in RelayCallers, e \in HostErrors : CardFails(c, e)
    \/ \E c \in RelayCallers, chunk \in RemoteChunks :
          Len(requests[c].chunks) < MaxRelayChunks /\ RemoteChunk(c, chunk)
    \/ \E c \in RelayCallers : RemoteEnds(c)
    \/ \E c \in RelayCallers, e \in HostErrors : RemoteRaises(c, e)

RelaySpec == Init /\ [][RelayNext]_vars

(***************************************************************************)
(* Vocabulary of the properties.                                           *)
(***************************************************************************)
\* the notices of a type enqueued so far
NoticesOf(type) == {i \in 1..Len(event_queue) : event_queue[i].type = type}

\* the acompletion calls of a Generating phase
CallsOf(p) == {i \in 1..Len(gen_log) : gen_log[i].phase = p}

\* the acompletion calls that failed with a Transient error
TransientFailures == {i \in 1..Len(gen_log) : gen_log[i].outcome \in Transient}

\* the acompletion calls that failed with an error that is not Transient
FatalFailures ==
    {i \in 1..Len(gen_log) : gen_log[i].outcome \in Errors \ Transient}

\* execute has ended without a final answer
Stopped == pc \in {"Failed", "Exhausted"}

\* the positions of execute after a stream has ended successfully
AfterStream == {"Done", "tool_notice", "tool_invoke", "tool_result",
                "tool_append"}

Last(seq) == seq[Len(seq)]

\* C1: as long as every failure of the generation capability was Transient
\* and fewer than max_retries of them fell in any one Generating phase, the
\* loop has not failed: one "retrying" notice was emitted per failure, no
\* error notice was emitted, and the assistant turn appended after a
\* successful attempt is the one folded from that attempt.
C1_RetrySuccess ==
    (/\ FatalFailures = {}
     /\ \A p \in 1..Phase :
            Cardinality(CallsOf(p) \cap TransientFailures) < max_retries)
    => /\ ~Stopped
       /\ Cardinality(NoticesOf("thinking")) = Cardinality(TransientFailures)
       /\ NoticesOf("error") = {}
       /\ pc \in AfterStream =>
            \E i \in 1..Len(messages) :
                messages[i] = CompletedMessage(current_content, tool_calls)

\* C2: when a run has stopped and every call of its last Generating phase
\* failed with a Transient error, the generation capability was invoked
\* exactly max_retries times in that phase and the last notice is the
\* "retries exhausted" error notice.
C2_RetryExhaustion ==
    (/\ Stopped
     /\ gen_log # <<>>
     /\ \A i \in CallsOf(Last(gen_log).phase) :
            gen_log[i].outcome \in Transient)
    => /\ Cardinality(CallsOf(Last(gen_log).phase)) = max_retries
       /\ pc = "Exhausted"
       /\ Last(event_queue).type = "error"
       /\ Last(event_queue).text = ExhaustedText(last_error)

\* C3: a generation attempt that failed with an error that is not
\* Transient, at the opening of the stream or in the middle of it, is the
\* last call of the generation capability of its run: the loop is Failed,
\* the failure's notice is the error notice and no "retrying" notice was
\* emitted for it.
C3_FatalNotRetried ==
    \A i \in FatalFailures :
        /\ i = Len(gen_log)
        /\ pc = "Failed"
        /\ Last(event_queue) =
               Notice(Uuid(uuid_n), "error", ErrorText(gen_log[i].outcome))
        /\ Cardinality(NoticesOf("thinking"))
               <= Cardinality(TransientFailures)
        /\ Len(sleeps) <= Cardinality(TransientFailures)

\* C3 witness: a second-phase stream that had delivered deltas failed with
\* a non-Transient error
C3_Witness ==
    /\ pc = "Failed"
    /\ last_error = "APIConnectionError"
    /\ received # <<>>
    /\ Last(gen_log).phase = 2

\* C4: when the consumption of a stream starts, in whatever attempt and
\* turn, the accumulated text and the tool-call slot table are empty.
C4_AccumulatorReset ==
    (pc = "streaming" /\ received = <<>>)
    => /\ current_content = ""
       /\ DOMAIN tool_calls_accumulator = {}

\* C4 witness: the stream of the second turn starts after a first turn that
\* accumulated text and a tool call
C4_Witness ==
    /\ pc = "streaming"
    /\ received = <<>>
    /\ Len(gen_log) = 2
    /\ Len(messages) >= 3
    /\ messages[3].role = "assistant"
    /\ messages[3].content # ""
    /\ tool_calls # <<>>

\* C5: while a generation attempt is under way (from the call of the
\* generation capability to the end of its stream) the only step that
\* changes the conversation is the successful end of the stream, and it
\* appends the whole completed message; a step that fails the attempt
\* leaves the conversation as it was.
C5_NoHalfUpdate ==
    [][(pc \in {"calling", "streaming"} /\ messages' # messages)
        => /\ pc = "streaming"
           /\ Last(gen_log').outcome = "ok"
           /\ messages' = Append(messages,
                  CompletedMessage(current_content, tool_calls'))
           /\ current_content' = current_content]_vars

\* C5 witness: a stream failed after it had delivered text and a tool-call
\* fragment, and the conversation is still the system and user turns
C5_Witness ==
    /\ pc = "Failed"
    /\ current_content # ""
    /\ DOMAIN tool_calls_accumulator # {}
    /\ Len(messages) = 2

(***************************************************************************)
(* The fold as a function of a whole delta sequence, and the               *)
(* AccumulatedTurn the properties compare: the text and, in the order of   *)
(* the tool-call list, each call's name and argument text.                 *)
(***************************************************************************)
RECURSIVE FoldFrom(_, _, _)
\* the accumulators after the deltas ds, from (content, acc)
FoldFrom(content, acc, ds) ==
    IF ds = <<>> THEN [content |-> content, acc |-> acc]
    ELSE FoldFrom(AddContent(content, Head(ds)),
                  FoldToolCalls(acc, Head(ds).tool_calls), Tail(ds))

\* the AccumulatedTurn of accumulators
AccumulatedTurn(content, acc) ==
    LET tcs == BuildToolCalls(acc, SortedKeys(DOMAIN acc), 0)
    IN  [text |-> content,
         calls |-> [k \in 1..Len(tcs) |->
                      [name |-> tcs[k].function.name,
                       arguments |-> tcs[k].function.arguments]]]

\* fold(deltas), from the empty accumulators of a fresh attempt
FoldOf(ds) ==
    LET r == FoldFrom("", EmptyDict, ds) IN AccumulatedTurn(r.content, r.acc)

\* the ways the model cuts a text in two non-empty pieces
Cuts ==
    ("Hi" :> {<<"H", "i">>})
    @@ ("lo" :> {<<"l", "o">>})
    @@ ("check_ticket_status" :> {<<"check_", "ticket_status">>,
                                  <<"check_ticket", "_status">>})
    @@ ("ticket_status" :> {<<"ticket", "_status">>})
    @@ ("delete_everything" :> {<<"delete_", "everything">>})
    @@ ("check_" :> {<<"che", "ck_">>})
    @@ ("{\"ticket_id\":" :> {<<"{", "\"ticket_id\":">>})
    @@ ("\"T1\"}" :> {<<"\"T1\"", "}">>})
    @@ ("{}" :> {<<"{", "}">>})

\* pairs of fragments of a text-or-None value x: the cuts of x, and x
\* beside an absent or empty piece
PiecePairs(x) ==
    (IF x \in DOMAIN Cuts THEN Cuts[x] ELSE {})
    \cup {<<x, None>>, <<None, x>>}

\* x1 followed by x2 is x, as texts
Concatenates(x1, x2, x) == OrEmpty(x1) \o OrEmpty(x2) = OrEmpty(x)

\* candidate pairs for one tool-call fragment: same index, the id carried
\* by either piece, name and argument text cut independently
FragPairs(f) ==
    {<<Frag(f.index, ids[1], n[1], a[1]), Frag(f.index, ids[2], n[2], a[2])>> :
        ids \in {<<f.id, None>>, <<None, f.id>>},
        n \in PiecePairs(f.name), a \in PiecePairs(f.arguments)}

\* the name (what = "name") or argument (what = "arguments") text a delta
\* carries for index i, in the order of its tool_calls
RECURSIVE Carried(_, _, _)
Carried(tcs, i, what) ==
    IF tcs = <<>> THEN ""
    ELSE (IF Head(tcs).index = i
          THEN (IF what = "name" THEN OrEmpty(Head(tcs).name)
                ELSE OrEmpty(Head(tcs).arguments))
          ELSE "")
         \o Carried(Tail(tcs), i, what)

IndexesOf(tcs) == {tcs[k].index : k \in 1..Len(tcs)}

\* d1 followed by d2 is a re-chunking of d: the text fragments, and per
\* tool-call index the name and argument fragments, concatenate to d's
IsSplit(d1, d2, d) ==
    /\ Concatenates(d1.content, d2.content, d.content)
    /\ IndexesOf(d1.tool_calls) \cup IndexesOf(d2.tool_calls)
           = IndexesOf(d.tool_calls)
    /\ \A i \in IndexesOf(d.tool_calls) : \A what \in {"name", "arguments"} :
           Carried(d1.tool_calls, i, what) \o Carried(d2.tool_calls, i, what)
               = Carried(d.tool_calls, i, what)

\* the candidate pairs for a delta: its tool_calls list cut in two at any
\* place, or every fragment cut in two; with the text cut in two
CandidatePairs(d) ==
    LET n == Len(d.tool_calls)
        listCuts == {<<SubSeq(d.tool_calls, 1, k),
                       SubSeq(d.tool_calls, k + 1, n)>> : k \in 0..n}
        fragCuts ==
            IF n = 0 THEN {}
            ELSE IF n = 1
                 THEN {<<<<p[1]>>, <<p[2]>>>> :
                          p \in FragPairs(d.tool_calls[1])}
                 ELSE {<<<<p[1], q[1]>>, <<p[2], q[2]>>>> :
                          p \in FragPairs(d.tool_calls[1]),
                          q \in FragPairs(d.tool_calls[2])}
    IN  {<<Delta(c[1], t[1]), Delta(c[2], t[2])>> :
            c \in PiecePairs(d.content) \cup {<<"", d.content>>},
            t \in listCuts \cup fragCuts}

Splits(d) == {p \in CandidatePairs(d) : IsSplit(p[1], p[2], d)}

\* ds with its i-th delta replaced by the two deltas of p
Rechunked(ds, i, p) ==
    SubSeq(ds, 1, i - 1) \o <<p[1], p[2]>> \o SubSeq(ds, i + 1, Len(ds))

\* C6: whatever the stream has delivered, replacing any one of its deltas
\* by two consecutive deltas whose text and per-index name and argument
\* fragments concatenate to that delta's yields the AccumulatedTurn the
\* loop has accumulated (same text, same calls, same names and arguments).
C6_FoldRechunking ==
    pc = "streaming" =>
        \A i \in 1..Len(received) : \A p \in Splits(received[i]) :
            FoldOf(Rechunked(received, i, p))
                = AccumulatedTurn(current_content, tool_calls_accumulator)

\* C6 witness: a stream of three deltas, one of which carries a text and
\* the fragments of two indexes, each with a name or argument text that
\* can be cut in two
C6_Witness ==
    /\ pc = "streaming"
    /\ Len(received) = 3
    /\ \E i \in 1..3 :
          /\ Len(received[i].tool_calls) = 2
          /\ \E p \in Splits(received[i]) :
                /\ Len(p[1].tool_calls) = 2
                /\ Len(p[2].tool_calls) = 2
                /\ Truthy(p[1].tool_calls[1].name)
                /\ Truthy(p[2].tool_calls[1].name)
    /\ \E i \in 1..3 : received[i].content = "Hi"

\* the tool-call fragments the stream has delivered, in arrival order
RECURSIVE Fragments(_)
Fragments(ds) ==
    IF ds = <<>> THEN <<>> ELSE Head(ds).tool_calls \o Fragments(Tail(ds))

\* the indexes the stream has delivered a fragment for
IndexesSeen == IndexesOf(Fragments(received))

\* the place of index i in the tool-call list: one more than the number of
\* smaller indexes seen
Rank(i) == Cardinality({j \in IndexesSeen : j < i}) + 1

\* C7: once the stream has ended, the tool-call list has exactly one call
\* per distinct index the stream delivered a fragment for, and the call of
\* a smaller index comes before the call of a larger one, whatever the
\* order in which the fragments arrived.
C7_ToolCallOrder ==
    pc \in AfterStream =>
        /\ Len(tool_calls) = Cardinality(IndexesSeen)
        /\ \A i \in IndexesSeen :
              /\ Rank(i) \in 1..Len(tool_calls)
              /\ tool_calls[Rank(i)].function.name
                     = Carried(Fragments(received), i, "name")
              /\ tool_calls[Rank(i)].function.arguments
                     = Carried(Fragments(received), i, "arguments")

\* C7 witness: the fragments of index 2 arrived first, those of index 0
\* after them, and the list has the call of index 0 first
C7_Witness ==
    /\ pc = "tool_notice"
    /\ Len(tool_calls) >= 2
    /\ Fragments(received)[1].index = 2
    /\ \E k \in 2..Len(Fragments(received)) :
           Fragments(received)[k].index = 0
    /\ tool_calls[1].id = "call_B"

\* the text fragments the stream has delivered, concatenated
RECURSIVE TextOf(_)
TextOf(ds) ==
    IF ds = <<>> THEN "" ELSE OrEmpty(Head(ds).content) \o TextOf(Tail(ds))

\* C8: at every point of the stream the accumulated text is the
\* concatenation of the text fragments received, in arrival order; the slot
\* table has one slot per index received, whose name and argument text are
\* the concatenation, in arrival order, of that index's name and argument
\* fragments; and the completed message carries the argument text as it
\* was accumulated, complete JSON or not.
C8_FoldSemantics ==
    pc \in {"streaming"} \cup AfterStream =>
        /\ current_content = TextOf(received)
        /\ DOMAIN tool_calls_accumulator = IndexesSeen
        /\ \A i \in IndexesSeen :
              /\ tool_calls_accumulator[i].function.name
                     = Carried(Fragments(received), i, "name")
              /\ tool_calls_accumulator[i].function.arguments
                     = Carried(Fragments(received), i, "arguments")
        /\ pc \in AfterStream =>
              /\ Last(messages).role = "assistant"
              /\ Last(messages).content = TextOf(received)
              /\ {tool_calls[k].function.arguments : k \in 1..Len(tool_calls)}
                     = {Carried(Fragments(received), i, "arguments") :
                            i \in IndexesSeen}

\* C8 witness: a stream of three deltas ended with a name received in two
\* fragments and, for another index, an argument text received after the
\* slot was created that is not complete JSON
C8_Witness ==
    /\ pc = "tool_notice"
    /\ Len(received) = 3
    /\ current_content = "!"
    /\ Len(received[1].tool_calls) = 1
    /\ received[1].tool_calls[1].name = "check_"
    /\ \E k \in 1..Len(tool_calls) :
          tool_calls[k].function.name = "check_ticket_status"
    /\ \E k \in 1..Len(tool_calls) :
          /\ tool_calls[k].function.arguments = "\"T1\"}"
          /\ ~JsonLoads(tool_calls[k].function.arguments).ok

\* the positions of the dispatch loop
Dispatching == {"tool_notice", "tool_invoke", "tool_result", "tool_append"}

\* C9: the loop is Done exactly when the last successful attempt's turn has
\* no tool calls: a turn with tool calls is being dispatched or has been
\* answered by tool-result turns, never Done; on Done the turn is the last
\* of the conversation (no tool was dispatched for it) and exactly one
\* final-answer notice was emitted, the last notice, whose text is the
\* turn's accumulated text; until Done no final-answer notice exists.
C9_DoneIffNoToolCalls ==
    /\ pc = "Done" =>
          /\ tool_calls = <<>>
          /\ Last(gen_log).outcome = "ok"
          /\ Last(messages) = [role |-> "assistant",
                               content |-> current_content]
          /\ Cardinality(NoticesOf("answer")) = 1
          /\ Last(event_queue) = Notice(turn_id, "answer", current_content)
          /\ current_content = TextOf(received)
    /\ pc # "Done" => NoticesOf("answer") = {}
    /\ pc \in Dispatching => tool_calls # <<>>
    /\ (pc \in AfterStream /\ tool_calls = <<>>) => pc = "Done"
    /\ \A i \in 1..Len(messages) :
          (messages[i].role = "assistant"
           /\ "tool_calls" \notin DOMAIN messages[i])
          => (i = Len(messages) /\ pc = "Done")

\* C9 witness: the second turn's stream ended without any delta, and the
\* loop is Done with an empty final answer
C9_Witness ==
    /\ pc = "Done"
    /\ current_content = ""
    /\ Len(gen_log) = 2
    /\ Last(event_queue).type = "answer"
    /\ Last(event_queue).text = ""

\* the tool messages that answer the calls 1..n of the current batch
BatchResults(n) ==
    [k \in 1..n |->
        ToolMessage(tool_calls[k],
                    FunctionResponse(tool_calls[k].function.name,
                                     tool_calls[k].function.arguments))]

\* the notices of the calls 1..n of the current batch, without their ids:
\* started, result, started, result, ...
BatchNotices(n) ==
    [j \in 1..(2 * n) |->
        LET c == tool_calls[(j + 1) \div 2]
        IN  IF j % 2 = 1
            THEN [type |-> "tool_call",
                  text |-> "Calling tool: " \o c.function.name \o "..."]
            ELSE [type |-> "tool_result",
                  text |-> "Tool returned: "
                           \o FunctionResponse(c.function.name,
                                               c.function.arguments)]]

\* the last n elements of a sequence
Tail_n(seq, n) == SubSeq(seq, Len(seq) - n + 1, Len(seq))

\* a notice without its id
Shown(n) == [type |-> n.type, text |-> n.text]

\* the calls among 1..n of the current batch whose tool body runs
Ran(n) == {k \in 1..n : BodyRuns(tool_calls[k].function.name,
                                  tool_calls[k].function.arguments)}

\* the tool bodies executed for the batch that follows the assistant turn
\* of phase p, as positions in the batch, in execution order
InvokedOf(p) ==
    LET idx == {i \in 1..Len(invocations) : invocations[i].phase = p}
    IN  [k \in 1..Cardinality(idx) |->
            invocations[CHOOSE i \in idx :
                Cardinality({j \in idx : j < i}) = k - 1].pos]

\* the assistant turn the current batch belongs to, and the phase of it
BatchPhase == Cardinality({i \in 1..Len(messages) :
                             messages[i].role = "assistant"})

\* how far the dispatch of the current batch has come: calls whose
\* started notice is out, calls invoked, calls whose result notice is out,
\* calls whose tool-result turn is appended
Progress ==
    IF pc = "tool_notice" THEN <<tc_pos - 1, tc_pos - 1, tc_pos - 1, tc_pos - 1>>
    ELSE IF pc = "tool_invoke" THEN <<tc_pos, tc_pos - 1, tc_pos - 1, tc_pos - 1>>
    ELSE IF pc = "tool_result" THEN <<tc_pos, tc_pos, tc_pos - 1, tc_pos - 1>>
    ELSE IF pc = "tool_append" THEN <<tc_pos, tc_pos, tc_pos, tc_pos - 1>>
    ELSE <<Len(tool_calls), Len(tool_calls), Len(tool_calls), Len(tool_calls)>>

\* C10: the calls of a batch are processed in index order, each through
\* started notice, invocation, result notice, append of its tool-result
\* turn, in this order, a call starting only when the one before it has
\* its turn appended; and whenever the generation capability is called
\* again, or has been, every call of the batch has its tool-result turn in
\* the conversation, in the order of the calls, right after the assistant
\* turn.
C10_DispatchOrdering ==
    (tool_calls # <<>> /\ pc \in Dispatching \cup {"calling", "streaming",
                                                  "Failed", "Exhausted"})
    => LET started == Progress[1]
           invoked == Progress[2]
           shown == Progress[3]
           appended == Progress[4]
       IN  /\ pc \in Dispatching => tc_pos \in 1..Len(tool_calls)
           /\ pc \in Dispatching => Len(gen_log) = BatchPhase
           \* the conversation ends with the assistant turn and the
           \* tool-result turns of the calls appended so far
           /\ Len(messages) > appended
           /\ Tail_n(messages, appended) = BatchResults(appended)
           /\ messages[Len(messages) - appended]
                  = CompletedMessage(messages[Len(messages) - appended].content,
                                     tool_calls)
           \* the bodies executed for this batch: the calls invoked so far
           \* whose body runs, in index order
           /\ InvokedOf(BatchPhase) = SortedKeys(Ran(invoked))
           /\ pc \in {"tool_result", "tool_append"} =>
                  function_response
                      = FunctionResponse(tc.function.name,
                                         tc.function.arguments)
           \* the notices of this batch, in order (a failed later attempt
           \* adds its error notice after them)
           /\ LET extra == (IF started > shown THEN 1 ELSE 0)
                           + (IF pc \in {"Failed", "Exhausted"} THEN 1 ELSE 0)
                  n == 2 * shown + extra
              IN  /\ Len(event_queue) >= n
                  /\ \A j \in 1..(2 * shown) :
                        Shown(Tail_n(event_queue, n)[j])
                            = BatchNotices(shown)[j]
                  /\ started > shown =>
                        Shown(Last(event_queue))
                            = [type |-> "tool_call",
                               text |-> "Calling tool: "
                                        \o tc.function.name \o "..."]

\* C10 witness: the second call of a batch of two has been invoked, its
\* body has run, and its result is about to be shown
C10_Witness ==
    /\ pc = "tool_result"
    /\ tc_pos = 2
    /\ Len(tool_calls) = 2
    /\ invocations # <<>>
    /\ Last(messages).role = "tool"


\* a tool call that does not come back from a tool body with a result: its
\* name is not registered, its argument text is not the tool's input, or
\* the body raises
FailingCall(c) ==
    \/ ~BodyRuns(c.function.name, c.function.arguments)
    \/ ToolRaises(c.function.name, c.function.arguments)

\* the strings tool dispatch turns a failing call into
FailureResults(c) ==
    {"Error: Tool " \o c.function.name \o " not found",
     ErrorExecutingTool("JSONDecodeError"),
     ErrorExecutingTool("TypeError"),
     ErrorExecutingTool(RaisedText(c.function.name))}

\* the tool-result turns of the conversation
ToolTurns == {i \in 1..Len(messages) : messages[i].role = "tool"}

\* C11: a tool call that fails (unregistered name, argument text that is
\* not the tool's input, tool body raising) never aborts the loop: its
\* dispatch produces a string, the result notice and the tool-result turn
\* carry this string, no error notice is emitted, the rest of the batch is
\* dispatched, and after the last call of the batch the loop is about to
\* call the generation capability again.
C11_ToolFailuresRecovered ==
    /\ [](pc \in Dispatching \cup {"calling", "streaming", "Done"}
            => NoticesOf("error") = {})
    /\ [][(pc \in Dispatching /\ FailingCall(tc)) =>
            /\ pc = "tool_notice" =>
                   /\ pc' = "tool_invoke"
                   /\ messages' = messages
            /\ pc = "tool_invoke" =>
                   /\ pc' = "tool_result"
                   /\ function_response' \in FailureResults(tc)
                   /\ event_queue' = event_queue
                   /\ messages' = messages
            /\ pc = "tool_result" =>
                   /\ pc' = "tool_append"
                   /\ Len(event_queue') = Len(event_queue) + 1
                   /\ Shown(Last(event_queue'))
                          = [type |-> "tool_result",
                             text |-> "Tool returned: " \o function_response]
                   /\ messages' = messages
            /\ pc = "tool_append" =>
                   /\ messages' = Append(messages,
                          [role |-> "tool", tool_call_id |-> tc.id,
                           name |-> tc.function.name,
                           content |-> function_response])
                   /\ function_response \in FailureResults(tc)
                   /\ event_queue' = event_queue
                   /\ IF tc_pos < Len(tool_calls)
                      THEN pc' = "tool_notice" /\ tc_pos' = tc_pos + 1
                      ELSE pc' = "calling" /\ attempt' = 0]_vars

\* C11 witness: after a batch of two unregistered calls and a batch of a
\* tool that raises and a tool given too few arguments, each call has its
\* tool-result turn and the loop is about to generate again
C11_Witness ==
    /\ pc = "calling"
    /\ Len(gen_log) = 2
    /\ Cardinality(ToolTurns) = 4
    /\ \E i \in ToolTurns :
          messages[i].content = "Error: Tool delete_everything not found"
    /\ \E i \in ToolTurns :
          messages[i].content = ErrorExecutingTool("TypeError")
    /\ \E i \in ToolTurns :
          messages[i].content
              = ErrorExecutingTool(RaisedText("validate_vm_provisioning"))
    /\ NoticesOf("error") = {}

\* the result of the call being dispatched is known
Answered == pc \in {"tool_result", "tool_append"}

\* the call being dispatched has not made a tool body run
NothingExecuted ==
    \A i \in 1..Len(invocations) :
        ~(invocations[i].phase = BatchPhase /\ invocations[i].pos = tc_pos)

\* C12: a tool call whose name is not in the registry, whatever its
\* argument text, results in the "tool not found" error string, and no tool
\* is executed for it.
C12_ToolNotFound ==
    (Answered /\ tc.function.name \notin DOMAIN available_functions)
    => /\ function_response
              = "Error: Tool " \o tc.function.name \o " not found"
       /\ NothingExecuted

\* the results the "except Exception" clause of the tool try block builds,
\* the wording with which the code reports a tool that raised
ExecutionFailures ==
    {ErrorExecutingTool(e) :
        e \in {"JSONDecodeError", "TypeError"}
               \cup {RaisedText(n) : n \in DOMAIN available_functions}}

\* C13: for a registered tool whose argument text is not the tool's
\* structured input (it does not parse, or it does not give the tool's
\* parameters), the tool body is not executed and the result is an error
\* string of its own kind, not the one that reports a tool that raised
\* during its execution.
C13_InvalidArguments ==
    (/\ Answered
     /\ tc.function.name \in DOMAIN available_functions
     /\ ~BodyRuns(tc.function.name, tc.function.arguments))
    => /\ NothingExecuted
       /\ function_response \notin ExecutionFailures

\* the results with which tool dispatch answers a call without a name
UnnamedResults ==
    {"Error: Tool  not found", ErrorExecutingTool("JSONDecodeError")}

\* C14: a slot whose name is still empty when the stream ends does not
\* make the fold fail: the tool-call list has a call with the empty name at
\* the slot's place; and tool dispatch neither executes nor skips that
\* call: no tool body runs for it, its result is an error string, and its
\* tool-result turn with that string is in the conversation when the batch
\* is over.
C14_EmptyToolName ==
    /\ pc \in AfterStream =>
          \A i \in IndexesSeen :
              Carried(Fragments(received), i, "name") = ""
              => /\ Rank(i) \in 1..Len(tool_calls)
                 /\ tool_calls[Rank(i)].function.name = ""
                 /\ tool_calls[Rank(i)].function.arguments
                        = Carried(Fragments(received), i, "arguments")
    /\ (Answered /\ tc.function.name = "")
       => /\ NothingExecuted
          /\ function_response \in UnnamedResults
    /\ (pc = "calling" /\ tool_calls # <<>>)
       => \A k \in 1..Len(tool_calls) :
             tool_calls[k].function.name = ""
             => LET m == messages[Len(messages) - Len(tool_calls) + k]
                IN  /\ m.role = "tool"
                    /\ m.tool_call_id = tool_calls[k].id
                    /\ m.name = ""
                    /\ m.content \in UnnamedResults
    /\ NoticesOf("error") = {}

\* C14 witness: two batches are over, one with a nameless call whose
\* argument text parses and one with a nameless call whose argument text
\* does not, and each has its tool-result turn
C14_Witness ==
    /\ pc = "calling"
    /\ Len(gen_log) = 2
    /\ \E i \in ToolTurns :
          messages[i].name = "" /\ messages[i].content = "Error: Tool  not found"
    /\ \E i \in ToolTurns :
          /\ messages[i].name = ""
          /\ messages[i].content = ErrorExecutingTool("JSONDecodeError")

\* execute has ended in failure: a generation failure was not recovered,
\* or an exception left execute
EndedInFailure == pc \in {"Failed", "Exhausted", "Raised"}

\* C15: a run that ends in failure, be it an unrecovered generation
\* failure or an error raised anywhere in execute, before the loop
\* included, has emitted exactly one error notice, no final-answer notice,
\* and nothing after the error notice.
C15_SingleErrorNotice ==
    EndedInFailure
    => /\ Cardinality(NoticesOf("error")) = 1
       /\ NoticesOf("answer") = {}
       /\ Last(event_queue).type = "error"

\* the assistant turns of the conversation
AssistantTurns == {i \in 1..Len(messages) : messages[i].role = "assistant"}

\* the number of tool calls the assistant turn at place i carries
NCalls(i) ==
    IF "tool_calls" \in DOMAIN messages[i]
    THEN Len(messages[i].tool_calls) ELSE 0

\* the turns that follow the assistant turn at place i, up to the next
\* assistant turn or the end of the conversation
FollowersOf(i) ==
    {j \in (i + 1)..Len(messages) :
        \A k \in (i + 1)..j : messages[k].role # "assistant"}

\* C16: the conversation starts as the system turn followed by the user
\* turn; no step changes or removes a turn it holds, a step appends at
\* most one turn; each generation that completes has appended one
\* assistant turn, and an assistant turn is followed by tool-result turns
\* only, as many as it has tool calls once its batch is over (none after
\* the final answer).
C16_ConversationAppendOnly ==
    /\ [](pc \notin {"start", "NoInput", "Raised"} =>
            /\ Len(messages) >= 2
            /\ messages[1] = [role |-> "system", content |-> SystemPrompt]
            /\ messages[2] = [role |-> "user", content |-> user_message]
            /\ \A i \in 3..Len(messages) :
                   messages[i].role \in {"assistant", "tool"}
            /\ Len(messages) >= 3 => messages[3].role = "assistant"
            /\ Cardinality(AssistantTurns)
                   = Cardinality({g \in 1..Len(gen_log) :
                                     gen_log[g].outcome = "ok"})
            /\ \A i \in AssistantTurns :
                   /\ \A j \in FollowersOf(i) : messages[j].role = "tool"
                   /\ Cardinality(FollowersOf(i))
                          = IF i = Len(messages) - Progress[4]
                               /\ pc \in Dispatching
                            THEN Progress[4]
                            ELSE NCalls(i)
            /\ pc = "Done" => NCalls(Len(messages)) = 0)
    /\ [][IF messages = <<>>
          THEN messages' \in {<<>>,
                              <<[role |-> "system", content |-> SystemPrompt],
                                [role |-> "user", content |-> user_message']>>}
          ELSE /\ Len(messages') \in {Len(messages), Len(messages) + 1}
               /\ SubSeq(messages', 1, Len(messages)) = messages]_vars

\* C16 witness: the conversation of a finished run: system, user, an
\* assistant turn with two tool calls, its two tool-result turns, and the
\* final assistant turn
C16_Witness ==
    /\ pc = "Done"
    /\ Len(messages) = 6
    /\ NCalls(3) = 2
    /\ messages[4].role = "tool"
    /\ messages[5].role = "tool"
    /\ messages[6].role = "assistant"
    /\ NCalls(6) = 0

\* the envelopes sent to the UI so far, as places in sse
Envelopes == {i \in 1..Len(sse) : "components" \in DOMAIN sse[i]}

\* the components of the envelope sent last
FinalEnvelope ==
    sse[CHOOSE i \in Envelopes : \A j \in Envelopes : j <= i].components

\* the components of an envelope that are of a kind
OfKind(comps, kind) == {k \in 1..Len(comps) : comps[k].kind = kind}

\* the code-styled components of an envelope
CodeStyled(comps) ==
    {k \in 1..Len(comps) :
        "usageHint" \in DOMAIN comps[k] /\ comps[k].usageHint = "code"}

\* the text of the scenario's second turn
FinalText == "Your VM is being provisioned"

\* the run of the scenario, delivered to the UI without a failure of the
\* remote stream: the first turn has no text and one tool call, the second
\* has the text FinalText and no tool call, the loop is Done and the host
\* has sent its completion event
Scenario ==
    /\ pc = "Done"
    /\ Len(gen_log) = 2
    /\ Len(messages) = 5
    /\ messages[3].content = ""
    /\ NCalls(3) = 1
    /\ messages[5].content = FinalText
    /\ host_pc = "complete"
    /\ host_pos = Len(event_queue)
    /\ IdlessConversions = {}

\* C17: in the scenario (turn 1: no text, one tool call whose dispatch
\* returns a string; turn 2: the text T, no tool call) the loop is Done and
\* the envelope delivered last to the UI has exactly one literal-text
\* fragment, whose text is exactly T, and no code-styled fragment.
C17_EndToEndScenario ==
    Scenario
    => /\ Cardinality(OfKind(FinalEnvelope, "Text")) = 1
       /\ \A k \in OfKind(FinalEnvelope, "Text") :
              FinalEnvelope[k].text = FinalText
       /\ CodeStyled(FinalEnvelope) = {}

\* the root container of an envelope
RootOf(comps) == comps[CHOOSE k \in 1..Len(comps) : comps[k].id = "root"]

\* the identifiers of the top-level fragments of the envelopes sent up to
\* place i of sse, in emission order, repetitions included
RECURSIVE EmittedUpTo(_)
EmittedUpTo(i) ==
    IF i = 0 THEN <<>>
    ELSE IF i \in Envelopes
         THEN EmittedUpTo(i - 1)
              \o SelectSeq([k \in 1..Len(sse[i].components) |->
                               sse[i].components[k].id],
                           LAMBDA id : id # "root")
         ELSE EmittedUpTo(i - 1)

\* a sequence without the later occurrences of its elements
RECURSIVE Distinct(_)
Distinct(seq) ==
    IF seq = <<>> THEN <<>>
    ELSE LET front == Distinct(SubSeq(seq, 1, Len(seq) - 1))
         IN  IF \E k \in 1..Len(front) : front[k] = Last(seq)
             THEN front ELSE Append(front, Last(seq))

\* C18: the root container sent with each conversion of a stream lists
\* the identifiers of all the top-level fragments sent so far in that
\* stream, in the order of their first emission.
C18_RootListsAllFragments ==
    \A i \in Envelopes :
        RootOf(sse[i].components).children = Distinct(EmittedUpTo(i))

\* C19: in every envelope sent, from the plain conversion or from the
\* rich-UI generation, whatever components the classification capability
\* returned, the root's list of children holds no identifier twice.
C19_NoDuplicateChildren ==
    \A i \in Envelopes :
        LET children == RootOf(sse[i].components).children
        IN  \A a, b \in 1..Len(children) :
                children[a] = children[b] => a = b

\* the place in sse of the envelope of the i-th conversion: the rich-UI
\* envelope that is not a conversion comes last, so the i-th conversion
\* made the i-th envelope
EnvelopeOf(i) ==
    CHOOSE e \in Envelopes : Cardinality({f \in Envelopes : f < e}) = i - 1

\* C20: the fragment identifier of a text notice is a function of its
\* message id alone: two conversions have the same fragment identifier
\* exactly if their notices have the same message id, whatever their text
\* and kind; and a notice without message id gets an identifier that no
\* earlier conversion of the stream had.
C20_StableTextIdentifier ==
    /\ \A i, j \in 1..Len(conversions) :
          (Truthy(conversions[i].message_id)
           /\ Truthy(conversions[j].message_id))
          => (conversions[i].id = conversions[j].id
              <=> conversions[i].message_id = conversions[j].message_id)
    /\ \A i \in 1..Len(conversions) :
          ~Truthy(conversions[i].message_id)
          => \A j \in 1..(i - 1) : conversions[j].id # conversions[i].id
    /\ \A i \in 1..Len(conversions) :
          /\ conversions[i].id = sse[EnvelopeOf(i)].components[1].id
          /\ sse[EnvelopeOf(i)].components[1].kind = "Text"

\* C20 witness: two notices with one message id and different texts were
\* converted to fragments with one identifier, the error of the raising
\* stream, which has no message id, to a fragment with an identifier of
\* its own, and the fallback conversion of the rich-UI step followed
C20_Witness ==
    /\ host_pc = "completing"
    /\ Len(conversions) = 4
    /\ conversions[1].message_id = "remote-1"
    /\ conversions[2].message_id = "remote-1"
    /\ conversions[1].id = conversions[2].id
    /\ sse[1].components[1].text # sse[2].components[1].text
    /\ conversions[3].message_id = None
    /\ conversions[3].id # conversions[1].id
    /\ Cardinality({conversions[i].id : i \in 1..4}) = 2

\* the rich-UI step of the stream fell back to the plain conversion of the
\* accumulated text: an envelope was sent after the stream's end, and it is
\* a conversion
FellBack ==
    /\ host_pc \in {"completing", "complete"}
    /\ accumulated_text # ""
    /\ Len(conversions) = Cardinality(Envelopes)

\* the conversions of the chunks of the stream that carried the loop's
\* final-answer notice
AnswerConversions ==
    {k \in 1..(Len(conversions) - 1) :
        /\ pc = "Done"
        /\ conversions[k].message_id = Last(event_queue).message_id}

\* C21: when the rich-UI generation fails after a stream that delivered
\* the loop's notices without an error of its own, the stream goes on to
\* its completion event, and the fragment of the fallback envelope sent in
\* its place has the identifier, the text and the styling of the plain
\* literal-text fragment already sent for the final answer.
C21_RichFallbackKeepsAnswer ==
    (/\ FellBack
     /\ pc = "Done"
     /\ host_pos = Len(event_queue)
     /\ IdlessConversions = {})
    => /\ AnswerConversions # {}
       /\ \A k \in AnswerConversions :
              FinalEnvelope[1] = sse[EnvelopeOf(k)].components[1]
       /\ host_pc = "complete" => Last(sse) = [type |-> "complete"]

\* the rich-UI generation of the stream succeeded: an envelope that is not
\* a conversion was sent after the stream's end
RichSucceeded ==
    /\ host_pc \in {"completing", "complete"}
    /\ Cardinality(Envelopes) = Len(conversions) + 1

\* a surface after one more envelope, for a consumer that replaces the
\* fragments by identifier: the components of the envelope take the place
\* of the ones with their identifiers (the later of two with one identifier
\* wins), the others stay
RECURSIVE Applied(_, _)
Applied(surface, comps) ==
    IF comps = <<>> THEN surface
    ELSE Applied((Head(comps).id :> Head(comps)) @@ surface, Tail(comps))

\* the consumer's surface after the events 1..i of the stream
RECURSIVE Surface(_)
Surface(i) ==
    IF i = 0 THEN <<>>
    ELSE IF i \in Envelopes THEN Applied(Surface(i - 1), sse[i].components)
         ELSE Surface(i - 1)

\* the identifiers a surface lists under its root
Listed(surface) ==
    IF "root" \in DOMAIN surface
    THEN {surface["root"].children[k] :
             k \in 1..Len(surface["root"].children)}
    ELSE {}

\* C22: when the rich-UI generation succeeds after a stream that delivered
\* the loop's notices without an error of its own, whatever components the
\* classification capability returned, the surface of a consumer that
\* replaces fragments by identifier still has the literal-text fragment of
\* the final answer under its identifier, listed under the root.
C22_RichKeepsAnswer ==
    (/\ RichSucceeded
     /\ pc = "Done"
     /\ host_pos = Len(event_queue)
     /\ IdlessConversions = {})
    => LET answer_id == "msg_" \o Last(event_queue).message_id
           surface == Surface(Len(sse))
       IN  /\ answer_id \in DOMAIN surface
           /\ surface[answer_id].kind = "Text"
           /\ answer_id \in Listed(surface)

\* the style the specification gives to a notice kind; None is no style
StyleOfKind(kind) ==
    CASE kind = "thinking" -> "subtle"
      [] kind = "tool_call" -> "code"
      [] kind = "tool_result" -> "code"
      [] kind = "error" -> "error"
      [] OTHER -> None

\* C23: every converted notice makes an envelope whose first component is
\* a Text component with the notice's text as its literal text and with a
\* style hint given by the notice's kind alone: subtle for thinking, code
\* for a tool call started and for a tool result, error for an error, and
\* no style hint for final or partial text, any other kind and a notice
\* without kind.
C23_NoticeKindMapping ==
    \A i \in 1..Len(conversions) :
        LET c == conversions[i].chunk
            comp == sse[EnvelopeOf(i)].components[1]
            style == StyleOfKind(c.type)
        IN  /\ comp.kind = "Text"
            /\ comp.text = c.text
            /\ IF style = None
               THEN "usageHint" \notin DOMAIN comp
               ELSE "usageHint" \in DOMAIN comp /\ comp.usageHint = style

\* C23 witness: a tool result with a message id and a notice without kind
\* and without message id were converted
C23_Witness ==
    /\ Len(conversions) = 2
    /\ conversions[1].chunk.type = "tool_result"
    /\ sse[1].components[1].usageHint = "code"
    /\ conversions[2].chunk.type = "none"
    /\ conversions[2].message_id = None
    /\ DOMAIN sse[2].components[1] = {"id", "kind", "text"}

\* the returns of get_or_create_connection for an address, as places in
\* the log
ReturnsFor(agent_url) ==
    {i \in 1..Len(returns) : returns[i].agent_url = agent_url}

\* the connections constructed for an address and returned so far
CreatedFor(agent_url) ==
    {returns[i].conn : i \in {j \in ReturnsFor(agent_url) : ~returns[j].hit}}

\* no call of get_or_create_connection has begun while another was
\* fetching an agent card that it went on to store
SequentialSoFar ==
    /\ \A i \in 1..Len(returns) : returns[i].at = returns[i].call
    /\ Cardinality({c \in Callers : requests[c].pc = "resolving"}) <= 1

\* C24: once get_or_create_connection has returned for an address, every
\* call for that address begun later returns the same connection, from the
\* cache, and a return from the cache neither fetches an agent card nor
\* changes the cache; in a sequential run at most one connection is
\* fetched and constructed for an address; and no address ever leaves the
\* cache.
C24_CacheHitPureLookup ==
    /\ [](\A i, j \in 1..Len(returns) :
            (/\ returns[i].agent_url = returns[j].agent_url
             /\ returns[j].call > returns[i].at)
            => /\ returns[j].conn = returns[i].conn
               /\ returns[j].hit)
    /\ [](SequentialSoFar =>
            \A u \in AgentUrls : Cardinality(CreatedFor(u)) <= 1)
    /\ [][/\ (Len(returns') > Len(returns) /\ Last(returns').hit)
             => /\ connections' = connections
                /\ card_fetches' = card_fetches
                /\ conn_n' = conn_n
          /\ \A u \in DOMAIN connections : u \in DOMAIN connections']_vars

\* C25: however the calls of get_or_create_connection for one address
\* overlap, at most one connection is constructed for the address, and all
\* the calls that return, the overlapping ones and the later ones, return
\* that connection.
C25_IdempotentUpsert ==
    \A u \in AgentUrls :
        /\ Cardinality(CreatedFor(u)) <= 1
        /\ \A i, j \in ReturnsFor(u) : returns[i].conn = returns[j].conn

\* the request c went from fetching the agent card to its end without a
\* connection: the resolution of its address failed
ResolutionFails(c) ==
    /\ requests[c].pc = "resolving"
    /\ requests'[c].call = requests[c].call
    /\ requests'[c].pc \notin {"resolving", "connected"}

\* C26: when the agent card of an address cannot be fetched or parsed,
\* the cache is left as it was, so that a call for an address that has no
\* entry fetches the card again; and a streaming request whose resolution
\* failed yields exactly one chunk, an error notice, and has ended: it
\* yields no other chunk afterwards.
C26_ResolutionFailure ==
    /\ [](\A c \in Callers :
            (/\ requests[c].kind = "chat_stream"
             /\ requests[c].pc \notin {"idle", "resolving"}
             /\ requests[c].conn.object = 0)
            => /\ requests[c].pc = "ended"
               /\ Len(requests[c].out) = 1
               /\ requests[c].out[1].type = "error")
    /\ [][\A c \in Callers :
            /\ ResolutionFails(c) => connections' = connections
            /\ (/\ requests'[c].call # requests[c].call
                /\ requests'[c].agent_url \notin DOMAIN connections)
               => /\ requests'[c].pc = "resolving"
                  /\ Last(card_fetches')
                         = [call |-> requests'[c].call,
                            agent_url |-> requests'[c].agent_url]
            /\ (requests[c].pc = "ended"
                /\ requests'[c].call = requests[c].call)
               => requests'[c] = requests[c]]_vars

\* C26 witness: the resolution of an address failed for a streaming
\* request, which ended with its one error notice; the address has no
\* entry, and a later request is fetching its agent card again
C26_Witness ==
    /\ requests["r1"].kind = "chat_stream"
    /\ requests["r1"].pc = "ended"
    /\ requests["r1"].conn.object = 0
    /\ requests["r1"].out = <<ProcessErrorToDict("ReadTimeout")>>
    /\ requests["r1"].agent_url \notin DOMAIN connections
    /\ requests["r2"].pc = "resolving"
    /\ requests["r2"].agent_url = requests["r1"].agent_url
    /\ requests["r2"].call > requests["r1"].call
    /\ Len(card_fetches) = 2

\* the transport the agent card and the request select: push, then
\* streaming, then polling
SelectedMode(card, use_push) ==
    IF card.push /\ use_push THEN "push"
    ELSE IF card.streaming THEN "streaming"
    ELSE "polling"

\* C29: the chat endpoint calls the agent in the mode its descriptor and
\* the request select: push if the agent supports push and use_push is
\* set, otherwise streaming if the agent supports streaming, otherwise
\* polling.
C29_TransportSelection ==
    \A c \in Callers :
        (requests[c].kind = "chat" /\ requests[c].mode # None)
        => requests[c].mode
               = SelectedMode(requests[c].conn.card, requests[c].use_push)

\* C27: once the cancellation of a request has been observed, the loop of
\* that request forwards no further notice: the event queue stays as it
\* is; a tool invocation in flight may still finish.
C27_NoNoticeAfterCancel ==
    [][Cancelled => event_queue' = event_queue]_vars

\* the Transient failures that leave attempts of their phase, in the order
\* of the calls
Retried ==
    SortedKeys({k \in TransientFailures :
                   gen_log[k].attempt < max_retries - 1})

\* the retry notices emitted so far, in order
RetryNotices == SortedKeys(NoticesOf("thinking"))

\* C30: each Transient failure at attempt index i that leaves attempts is
\* followed by one retry notice and one sleep; the wait the notice
\* announces is the time slept and is min(4 * 2^i, 60) seconds, at most
\* 60; and nothing else sleeps, so the last permitted attempt is not
\* followed by a sleep.
C30_BackoffDuration ==
    /\ Len(sleeps) = Len(Retried)
    /\ Len(RetryNotices) = Len(Retried)
    /\ \A j \in 1..Len(Retried) :
          LET i == gen_log[Retried[j]].attempt
              wait == IF 4 * (2 ^ i) < 60 THEN 4 * (2 ^ i) ELSE 60
          IN  /\ sleeps[j] = wait
              /\ sleeps[j] <= 60
              /\ event_queue[RetryNotices[j]].text
                     = "Rate limit hit. Waiting " \o ToString(wait)
                       \o "s before retry (" \o ToString(i + 1) \o "/5)..."

\* the Generating<->Dispatching cycles of the run: the assistant turns
\* with tool calls whose batch has been dispatched to its last call
Cycles ==
    Cardinality({i \in AssistantTurns :
        NCalls(i) > 0 /\ Cardinality(FollowersOf(i)) = NCalls(i)})

\* the run has made as many generation calls as the model follows and is
\* about to make one more
AtGenerationBound == pc = "calling" /\ Len(gen_log) = MaxGenCalls

\* C28 as stated, with the number of generation calls the model follows
\* as the maximum turn count: a run that has made that many cycles, every
\* generated turn containing a tool call, has ended: it is not about to
\* generate another turn.
C28_BoundedTurns ==
    ~(AtGenerationBound /\ Cycles = MaxGenCalls)

\* the run has entered the turn loop: execute is past the prompt for a
\* missing message and past the lines before "while True"
InTurnLoop == pc \notin {"start", "NoInput", "Raised"}

\* every generation call of the run so far has produced a turn that
\* contains a tool call, and the batch of each has been dispatched
EveryTurnCalledTools == Cycles = Len(gen_log)

\* C28 amended: when every call returns, a run of the turn loop reaches
\* Done or Failed unless every generated turn contains a tool call; no
\* maximum turn count bounds the cycles: after the last call of a batch
\* the loop generates again, whatever the number of cycles made, so a run
\* in which every generated turn contains a tool call goes on generating
\* (here: as far as the model follows it) and is never Done or Failed.
C28_TurnLoopEnds ==
    /\ InTurnLoop ~> \/ pc \in {"Done", "Failed"}
                     \/ AtGenerationBound /\ EveryTurnCalledTools
    /\ [][(pc = "tool_append" /\ tc_pos = Len(tool_calls))
            => (pc' = "calling" /\ attempt' = 0)]_vars
    /\ [](pc \in {"Done", "Failed"} => ~EveryTurnCalledTools)

\* C28 witness: two turns, each with tool calls, have been generated and
\* their batches dispatched, and the loop is about to generate a third
C28_Witness ==
    /\ pc = "calling"
    /\ attempt = 0
    /\ Cycles = 2
    /\ Len(gen_log) = 2
    /\ Last(messages).role = "tool"
    /\ NoticesOf("answer") = {}

\* a generation attempt fails in this step with a Transient error while
\* attempts of its phase remain
TransientFailureStep ==
    /\ Len(gen_log') > 0
    /\ gen_log' # gen_log
    /\ Last(gen_log').outcome \in Transient
    /\ Last(gen_log').attempt < max_retries - 1

\* C31: a Transient failure that leaves attempts is answered by exactly
\* one retrying notice and exactly one backoff sleep, after which the
\* generation capability is called again in the same phase; and a
\* retrying notice or a sleep comes from no other step, in particular
\* from none in which a generation succeeds.
C31_RetryStepOrdering ==
    [][/\ TransientFailureStep
          => /\ Len(event_queue') = Len(event_queue) + 1
             /\ Last(event_queue').type = "thinking"
             /\ sleeps' = Append(sleeps, WaitTime(attempt))
             /\ pc' = "calling"
             /\ attempt' = attempt + 1
             /\ messages' = messages
       /\ ~TransientFailureStep
          => /\ sleeps' = sleeps
             /\ (Len(event_queue') > Len(event_queue)
                 => Last(event_queue').type # "thinking")]_vars

\* the tool calls of the assistant turns of the conversation: <<p, k>> is
\* call k of the p-th assistant turn
AppendedCalls ==
    UNION {{<<Cardinality({j \in AssistantTurns : j <= i}), k>> :
               k \in 1..NCalls(i)} : i \in AssistantTurns}

\* call k of the p-th assistant turn
AppendedCall(p, k) ==
    messages[CHOOSE i \in AssistantTurns :
                Cardinality({j \in AssistantTurns : j <= i}) = p].tool_calls[k]

\* the calls of the batch under dispatch that step n (1 started notice,
\* 2 invocation, 3 result notice, 4 tool-result turn) has not reached yet
Pending(n) == Len(tool_calls) - Progress[n]

\* the executions of the body of call k of the p-th assistant turn
RunsOf(p, k) == {i \in 1..Len(invocations) :
                    invocations[i].phase = p /\ invocations[i].pos = k}

\* a generation attempt ends in failure in this step
AttemptFails ==
    /\ Len(gen_log') > 0
    /\ Last(gen_log').outcome \in Errors
    /\ gen_log' # gen_log

\* C32: at every moment the started notices, the result notices and the
\* tool-result turns are as many as the calls of the appended assistant
\* turns that the dispatch has reached, one each per call; the body of a
\* call has run once when the call was invoked and its arguments parse
\* and its tool exists, never twice, and only for calls of appended
\* assistant turns, with their name and arguments; and a step in which a
\* generation attempt fails appends no turn, runs no tool and emits no
\* tool notice, whatever the attempt had accumulated.
C32_NoDuplicatedSideEffects ==
    /\ [](/\ Cardinality(NoticesOf("tool_call"))
                = Cardinality(AppendedCalls) - Pending(1)
          /\ Cardinality(NoticesOf("tool_result"))
                = Cardinality(AppendedCalls) - Pending(3)
          /\ Cardinality(ToolTurns)
                = Cardinality(AppendedCalls) - Pending(4)
          /\ \A i \in 1..Len(invocations) :
                /\ <<invocations[i].phase, invocations[i].pos>>
                       \in AppendedCalls
                /\ LET c == AppendedCall(invocations[i].phase,
                                         invocations[i].pos)
                   IN  /\ invocations[i].name = c.function.name
                       /\ invocations[i].arguments = c.function.arguments
          /\ \A c \in AppendedCalls :
                LET call == AppendedCall(c[1], c[2])
                    reached == c[1] < BatchPhase \/ c[2] <= Progress[2]
                IN  Cardinality(RunsOf(c[1], c[2]))
                        = IF reached /\ BodyRuns(call.function.name,
                                                 call.function.arguments)
                          THEN 1 ELSE 0)
    /\ [][AttemptFails
          => /\ messages' = messages
             /\ invocations' = invocations
             /\ tool_calls' = tool_calls
             /\ pc' \notin Dispatching
             /\ Last(event_queue').type \notin {"tool_call", "tool_result"}
             /\ Len(event_queue') = Len(event_queue) + 1]_vars

\* C32 witness: a batch of two calls was dispatched, one of them ran its
\* tool body; the next attempt accumulated a tool call and then failed
C32_Witness ==
    /\ pc = "Failed"
    /\ DOMAIN tool_calls_accumulator # {}
    /\ Len(tool_calls) = 2
    /\ Len(invocations) = 1
    /\ Cardinality(NoticesOf("tool_result")) = 2

\* the call ids the turns after the assistant turn at place i refer to, in
\* the order of the turns
ReferencedIds(i) ==
    [k \in 1..Cardinality(FollowersOf(i)) |-> messages[i + k].tool_call_id]

\* the ids of the first n tool calls of the assistant turn at place i
CallIds(i, n) == [k \in 1..n |-> messages[i].tool_calls[k].id]

\* C33: in the conversation, every tool-result turn comes after an
\* assistant turn, and the turns between an assistant turn with n tool
\* calls and the next assistant turn are tool-result turns that refer to
\* the ids of its calls in index order: all n of them once the batch is
\* over, which is the case whenever the generation capability is called
\* with the conversation, and the first ones while the batch is being
\* dispatched.
C33_ToolResultPairing ==
    /\ \A j \in ToolTurns : \E i \in AssistantTurns : j \in FollowersOf(i)
    /\ \A i \in AssistantTurns :
          LET underway == pc \in Dispatching /\ i = Len(messages) - Progress[4]
              n == IF underway THEN Progress[4] ELSE NCalls(i)
          IN  /\ n <= NCalls(i)
              /\ \A j \in FollowersOf(i) : messages[j].role = "tool"
              /\ ReferencedIds(i) = CallIds(i, n)
              /\ \A k \in 1..NCalls(i) :
                    messages[i].tool_calls[k].id \notin {"", None}
    /\ pc \in {"calling", "streaming"} =>
          \A i \in AssistantTurns :
              Cardinality(FollowersOf(i)) = NCalls(i)

\* C33 witness: the generation capability is called with a conversation in
\* which an assistant turn with two calls, the second with a generated id,
\* is followed by the two tool-result turns that refer to them
C33_Witness ==
    /\ pc = "calling"
    /\ Len(messages) = 5
    /\ NCalls(3) = 2
    /\ messages[3].tool_calls[1].id = "call_A"
    /\ messages[3].tool_calls[2].id = "call_" \o Uuid(2)
    /\ ReferencedIds(3) = <<"call_A", "call_" \o Uuid(2)>>

\* the rich-UI step ran: generate_rich_ui was called with accumulated_text
\* and last_message_id, which no later step changes
RichStepRan ==
    /\ host_pc \in {"completing", "complete"}
    /\ accumulated_text # ""

\* the conversions of the chunks of the stream that carried the
\* final-answer notice (the conversion of the fallback, the last one when
\* the rich-UI step fell back, is not a chunk of the stream)
FinalAnswerChunks ==
    {k \in 1..(Len(conversions) - (IF FellBack THEN 1 ELSE 0)) :
        /\ conversions[k].chunk.type = "answer"
        /\ conversions[k].message_id = Last(event_queue).message_id}

\* C34: when the rich-UI step runs after a stream that relayed all notices
\* of a finished loop and no error of its own, the text handed to the
\* classification capability is the text of the final-answer notice, and
\* the identifier handed over is the identifier of the fragment sent for
\* the final answer.
C34_RichUiInput ==
    (/\ RichStepRan
     /\ pc = "Done"
     /\ host_pos = Len(event_queue)
     /\ IdlessConversions = {})
    => /\ accumulated_text = Last(event_queue).text
       /\ FinalAnswerChunks # {}
       /\ \A k \in FinalAnswerChunks : last_message_id = conversions[k].id

\* the first non-empty id among the fragments of index i in frags, None
\* when no fragment of the index carries one
RECURSIVE FirstId(_, _)
FirstId(frags, i) ==
    IF frags = <<>> THEN None
    ELSE IF Head(frags).index = i /\ Truthy(Head(frags).id)
         THEN Head(frags).id
         ELSE FirstId(Tail(frags), i)

\* the ids "call_<uuid4>" generated so far
GeneratedIds == {"call_" \o Uuid(n) : n \in 1..uuid_n}

\* C35: while the stream is folded, the id of a slot is the first
\* non-empty id a fragment of its index carried, whatever ids later
\* fragments of the index carry, and no id as long as none did; in the
\* completed message a call whose slot got an id has that id, a call whose
\* slot got none has a generated non-empty id of its own; and name and
\* argument text of the call are the concatenation of the index's name and
\* argument fragments, whichever fragment carried the id.
C35_ToolCallIdSelection ==
    pc \in {"streaming"} \cup AfterStream =>
        \A i \in IndexesSeen :
            LET first == FirstId(Fragments(received), i)
            IN  /\ Truthy(first) => tool_calls_accumulator[i].id = first
                /\ ~Truthy(first) => ~Truthy(tool_calls_accumulator[i].id)
                /\ pc \in AfterStream =>
                      LET call == tool_calls[Rank(i)]
                      IN  /\ Truthy(call.id)
                          /\ Truthy(first) => call.id = first
                          /\ ~Truthy(first) =>
                                /\ call.id \in GeneratedIds
                                /\ \A j \in IndexesSeen \ {i} :
                                      tool_calls[Rank(j)].id # call.id
                          /\ call.function.name
                                = Carried(Fragments(received), i, "name")
                          /\ call.function.arguments
                                = Carried(Fragments(received), i, "arguments")

\* C35 witness: index 0 received the id call_A and later the id call_B,
\* index 1 only an empty id, index 2 its id in its second fragment's place
\* after a fragment without one
C35_Witness ==
    /\ pc = "tool_notice"
    /\ Len(tool_calls) = 3
    /\ tool_calls[1].id = "call_A"
    /\ \E k \in 1..Len(Fragments(received)) :
          /\ Fragments(received)[k].index = 0
          /\ Fragments(received)[k].id = "call_B"
    /\ tool_calls[2].id = "call_" \o Uuid(2)
    /\ tool_calls[3].id = "call_C"

\* the places in the chunks received by request c of the chunks that carry
\* an error or a result
Noticed(c) ==
    {k \in 1..Len(requests[c].chunks) :
        \/ "error" \in DOMAIN requests[c].chunks[k]
        \/ "result" \in DOMAIN requests[c].chunks[k]}

\* the place among the chunks received by request c of the chunk its j-th
\* relayed notice stands for
SourceOf(c, j) ==
    CHOOSE k \in Noticed(c) : Cardinality({i \in Noticed(c) : i <= k}) = j

\* C36: while stream_agent relays, it has yielded one notice per chunk
\* received that carries an error or a result, in arrival order, and none
\* for the other chunks: an error notice with the error's text for an error
\* chunk, after which the following chunks are relayed as before, and the
\* text, type and id of the result for a result chunk; the relay ends
\* with at most one more notice, an error notice (the exception raised by
\* the connection or the iteration), and yields nothing after its end
\* (the slot's next request starts a relay of its own).
C36_HostStreamErrors ==
    /\ [](\A c \in RelayCallers :
             (requests[c].kind = "chat_stream"
              /\ requests[c].pc = "connected")
             => /\ Len(requests[c].out) = Cardinality(Noticed(c))
                /\ \A j \in 1..Len(requests[c].out) :
                      LET chunk == requests[c].chunks[SourceOf(c, j)]
                          o == requests[c].out[j]
                      IN  IF "error" \in DOMAIN chunk
                          THEN /\ o.type = "error"
                               /\ o.text = "Error: " \o chunk.error
                          ELSE /\ o.type = chunk.result.type
                               /\ o.text = chunk.result.text
                               /\ o.message_id = chunk.result.message_id)
    /\ [][\A c \in RelayCallers :
             /\ (requests[c].pc \in {"resolving", "connected"}
                 /\ requests'[c].pc = "ended")
                => /\ requests'[c].chunks = requests[c].chunks
                   /\ \/ requests'[c].out = requests[c].out
                      \/ /\ Len(requests'[c].out) = Len(requests[c].out) + 1
                         /\ SubSeq(requests'[c].out, 1, Len(requests[c].out))
                                = requests[c].out
                         /\ Last(requests'[c].out).type = "error"
             /\ (requests[c].pc = "ended"
                 /\ requests'[c].call = requests[c].call)
                => requests'[c].out = requests[c].out]_vars

\* C36 witness: the remote stream delivered an error chunk, a chunk with
\* neither error nor result and a result chunk, then raised: the relay
\* ended having yielded the error notice, the result and the notice of the
\* exception
C36_Witness ==
    /\ requests["r1"].pc = "ended"
    /\ Len(requests["r1"].chunks) = 3
    /\ "error" \in DOMAIN requests["r1"].chunks[1]
    /\ DOMAIN requests["r1"].chunks[2] = {"id"}
    /\ "result" \in DOMAIN requests["r1"].chunks[3]
    /\ Len(requests["r1"].out) = 3
    /\ requests["r1"].out[1].type = "error"
    /\ requests["r1"].out[2].type = "tool_call"
    /\ requests["r1"].out[3].type = "error"

\* the places in the stream of the terminal events, 'complete' and 'error'
TerminalEvents ==
    {i \in 1..Len(sse) : /\ "type" \in DOMAIN sse[i]
                         /\ sse[i].type \in {"complete", "error"}}

\* C37: a streaming response has at most one terminal event, 'complete'
\* or 'error', it is the last event sent, and a response that has ended
\* has one; also when the rich-UI generation fails and when persisting
\* the agent response fails.
C37_SseTerminalEvent ==
    /\ Cardinality(TerminalEvents) <= 1
    /\ \A i \in TerminalEvents : i = Len(sse)
    /\ host_pc = "closed" => Cardinality(TerminalEvents) = 1

\* the envelopes sent to the client so far, in the order sent
SentEnvelopes ==
    [i \in 1..Cardinality(Envelopes) |-> sse[EnvelopeOf(i)].components]

\* the chunks of the agent's notices converted so far
RelayedNotices ==
    SelectSeq([i \in 1..Len(conversions) |-> conversions[i].chunk],
              LAMBDA chunk : Truthy(chunk.message_id))

\* while the agent's stream is relayed, one envelope has been sent per
\* chunk, in the order of the chunks, which is the order of the notices
SentPerChunk ==
    host_pc = "streaming" =>
        /\ Len(sse) = Len(conversions)
        /\ \A i \in 1..Len(sse) :
              /\ "components" \in DOMAIN sse[i]
              /\ sse[i].components[1].id = conversions[i].id
              /\ sse[i].components[1].text = conversions[i].chunk.text
        /\ RelayedNotices
               = [k \in 1..host_pos |-> ProcessResponse(event_queue[k])]

\* the envelope of the rich-UI step comes after the envelopes of all
\* chunks and before 'complete': every envelope precedes 'complete'
RichBeforeComplete ==
    /\ host_pc = "completing" =>
          /\ Len(sse) = Cardinality(Envelopes)
          /\ Len(sse) >= 2
    /\ \A i \in 1..Len(sse) :
          ("type" \in DOMAIN sse[i] /\ sse[i].type = "complete")
          => Envelopes = 1..(i - 1)

\* the agent message of the response is in the database, after the user
\* message, and holds the envelopes sent
PersistedAsSent ==
    /\ Len(db_messages) = 2
    /\ db_messages[2] = [role |-> "agent", content |-> SentEnvelopes]

\* C38: envelopes are sent one per relayed chunk in arrival order; the
\* rich-UI envelope, if any, is sent after them and before 'complete'; and
\* when the response has ended with 'complete' sent and at least one
\* envelope sent, the persisted agent message holds exactly the envelopes
\* sent, in the order sent (as long as the session, and with it its
\* messages, has not been deleted).
C38_SseOrderingAndPersistence ==
    /\ SentPerChunk
    /\ RichBeforeComplete
    /\ (host_pc = "closed" /\ Envelopes # {} /\ chat_session)
           => PersistedAsSent

\* the request carries no user message
NoUserMessage == ~Truthy(user_message)

\* execute has emitted the prompt for a missing message and nothing else
OnlyPrompt ==
    /\ Len(event_queue) = 1
    /\ event_queue[1].type = "none"
    /\ event_queue[1].text = NoInputText
    /\ event_queue[1].message_id = Uuid(1)

\* C39: for a request without user message, execute never calls the
\* generation capability, seeds no conversation, runs no tool and emits
\* no final-answer, error or tool notice; and once it has been left it
\* has emitted exactly one message, the prompt.
C39_EmptyUserMessage ==
    NoUserMessage
    => /\ gen_log = <<>>
       /\ invocations = <<>>
       /\ messages = <<>>
       /\ NoticesOf("answer") = {}
       /\ NoticesOf("error") = {}
       /\ NoticesOf("tool_call") \cup NoticesOf("tool_result") = {}
       /\ pc # "start" => OnlyPrompt
====
